---- MODULE Spec2Model ----
(***************************************************************************)
(* KQI processing: the packed cell identifier decoder                       *)
(* (core/entities.py) and the resolution-and-aggregation pipeline          *)
(* KQIProcessor.process (infrastructure/file_operations.py).               *)
(*                                                                         *)
(* Text is modelled as a sequence of one-character strings, so that        *)
(* slicing, padding and digit parsing are computed character by character. *)
(***************************************************************************)
EXTENDS Integers, Sequences, FiniteSets, Bags, TLC

VARIABLES
    cgisai,          \* decoder run: the argument of from_cgisai
    network_id,      \* decoder run: what from_cgisai returned or raised
    directory,       \* the module-level dict INDONESIA_OPERATORS as it is now
    pc,              \* pipeline run: position inside KQIProcessor.process
    kqiraw,          \* pipeline run: the raw records passed to process
    sourceraw,       \* pipeline run: the reference table passed to process
    df,              \* pipeline run: the working frame (kqiraw as process rebinds it)
    mapped_data,     \* pipeline run: rows with a tower
    unmapped_data,   \* pipeline run: rows without a tower
    result_mapped,   \* pipeline run: output of _aggregate_daily
    result_unmapped, \* pipeline run: output of _aggregate_unmapped
    columns,         \* pipeline run: the column index of the two outputs
    given,           \* pipeline run: the two arguments as the caller passed them
    env,             \* use-case run: the files execute is pointed at
    step,            \* use-case run: position inside ProcessKQIDataUseCase.execute
    calls,           \* use-case run: the calls made on the collaborators, in order
    outcome,         \* use-case run: what execute returned or raised
    inputs_valid,    \* window: whether validate_inputs accepts the three fields
    is_processing,   \* window: the flag ModernKQIGUI.is_processing
    process_btn,     \* window: the state of the start button
    log_text,        \* window: the lines of the log widget
    progress,        \* window: the progress bar value and the label under it
    main,            \* window: position of the main thread inside start_processing
    threads,         \* window: the worker threads started so far, in order
    events,          \* window: the callbacks queued with root.after(0, ...), in order
    dialog,          \* window: the message box shown last
    monitors,        \* window: the number of scheduled monitor callbacks
    starts           \* window: the number of times start_processing was invoked

vars == <<cgisai, network_id, directory, pc, kqiraw, sourceraw, df, mapped_data,
          unmapped_data, result_mapped, result_unmapped, columns, given,
          env, step, calls, outcome, inputs_valid, is_processing, process_btn,
          log_text, progress, main, threads, events, dialog, monitors, starts>>

decodeVars == <<cgisai, network_id, directory>>
pipeVars == <<pc, kqiraw, sourceraw, df, mapped_data, unmapped_data,
              result_mapped, result_unmapped, columns, given>>
execVars == <<env, step, calls, outcome>>
guiVars == <<inputs_valid, is_processing, process_btn, log_text, progress, main,
             threads, events, dialog, monitors, starts>>

(***************************************************************************)
(* Text helpers                                                            *)
(***************************************************************************)
RECURSIVE Repeat(_, _)
Repeat(c, n) == IF n <= 0 THEN <<>> ELSE <<c>> \o Repeat(c, n - 1)

\* Python slice s[a:b] with 0 <= a <= b, clipped to the length of s.
Slice(s, a, b) ==
    LET hi == IF b > Len(s) THEN Len(s) ELSE b
    IN  IF a >= hi THEN <<>> ELSE SubSeq(s, a + 1, hi)

\* Padding on the right, as str.ljust(width, "0").
ZfillRight(s, width) == IF Len(s) >= width THEN s ELSE s \o Repeat("0", width - Len(s))

\* str.zfill(width): zeros go after a leading sign.
Zfill(s, width) ==
    IF Len(s) >= width THEN s
    ELSE IF Len(s) > 0 /\ s[1] \in {"+", "-"}
         THEN <<s[1]>> \o Repeat("0", width - Len(s)) \o Tail(s)
         ELSE Repeat("0", width - Len(s)) \o s

LowerHex == <<"0", "1", "2", "3", "4", "5", "6", "7", "8", "9",
              "a", "b", "c", "d", "e", "f">>
UpperHex == <<"0", "1", "2", "3", "4", "5", "6", "7", "8", "9",
              "A", "B", "C", "D", "E", "F">>

IsHexDigit(c) == \E i \in 1..16 : LowerHex[i] = c \/ UpperHex[i] = c

HexDigitValue(c) == (CHOOSE i \in 1..16 : LowerHex[i] = c \/ UpperHex[i] = c) - 1

IsSpace(c) == c = " "

RECURSIVE LStrip(_)
LStrip(s) == IF s # <<>> /\ IsSpace(Head(s)) THEN LStrip(Tail(s)) ELSE s

RECURSIVE RStrip(_)
RStrip(s) ==
    IF s # <<>> /\ IsSpace(s[Len(s)]) THEN RStrip(SubSeq(s, 1, Len(s) - 1)) ELSE s

Strip(s) == RStrip(LStrip(s))

ValueError == [status |-> "ValueError"]

\* The digit part of an integer literal: digits, single underscores between them.
WellFormedDigits(d) ==
    /\ d # <<>>
    /\ \A i \in 1..Len(d) : IsHexDigit(d[i]) \/ d[i] = "_"
    /\ IsHexDigit(d[1])
    /\ IsHexDigit(d[Len(d)])
    /\ \A i \in 1..(Len(d) - 1) : ~(d[i] = "_" /\ d[i + 1] = "_")

RECURSIVE DigitsValueBase10(_, _)
DigitsValueBase10(d, acc) ==
    IF d = <<>> THEN acc
    ELSE IF Head(d) = "_" THEN DigitsValueBase10(Tail(d), acc)
    ELSE DigitsValueBase10(Tail(d), acc * 10 + HexDigitValue(Head(d)))

RECURSIVE DigitsValue(_, _)
DigitsValue(d, acc) ==
    IF d = <<>> THEN acc
    ELSE IF Head(d) = "_" THEN DigitsValue(Tail(d), acc)
    ELSE DigitsValue(Tail(d), acc * 16 + HexDigitValue(Head(d)))

\* int(text, 16): surrounding whitespace, one sign, an optional 0x / 0X prefix
\* (an underscore may follow it), then the digits; anything else raises.
IntBase16(text) ==
    LET t      == Strip(text)
        signed == t # <<>> /\ t[1] \in {"+", "-"}
        neg    == signed /\ t[1] = "-"
        u      == IF signed THEN Tail(t) ELSE t
        pref   == Len(u) >= 2 /\ u[1] = "0" /\ u[2] \in {"x", "X"}
        v      == IF pref THEN Slice(u, 2, Len(u)) ELSE u
        d      == IF pref /\ v # <<>> /\ v[1] = "_" THEN Tail(v) ELSE v
    IN  IF WellFormedDigits(d)
        THEN [status |-> "ok",
              value  |-> IF neg THEN 0 - DigitsValue(d, 0) ELSE DigitsValue(d, 0)]
        ELSE ValueError

(***************************************************************************)
(* core/entities.py                                                        *)
(***************************************************************************)
INDONESIA_OPERATORS ==
    { << <<"5", "1", "0", "1", "0">>, "Telkomsel" >>,
      << <<"5", "1", "0", "0", "1">>, "Telkomsel" >>,
      << <<"5", "1", "0", "2", "1">>, "Indosat" >>,
      << <<"5", "1", "0", "1", "1">>, "XL" >>,
      << <<"5", "1", "0", "0", "9">>, "SF" >>,
      << <<"5", "1", "0", "2", "8">>, "SF" >>,
      << <<"5", "1", "0", "8", "9">>, "Tri" >>,
      << <<"5", "1", "0", "8", "8">>, "Tri" >>,
      << <<"5", "1", "0", "0", "8">>, "Axis" >>,
      << <<"5", "1", "0", "2", "7">>, "Bolt" >> }

\* A lookup keyed by the country code alone.
OperatorOfByMcc(plmn) ==
    IF \E e \in directory : SubSeq(e[1], 1, 3) = SubSeq(plmn, 1, 3)
    THEN (CHOOSE e \in directory : SubSeq(e[1], 1, 3) = SubSeq(plmn, 1, 3))[2]
    ELSE "Unknown"

\* INDONESIA_OPERATORS.get(plmn, "Unknown")
OperatorOf(plmn) ==
    IF \E e \in directory : e[1] = plmn
    THEN (CHOOSE e \in directory : e[1] = plmn)[2]
    ELSE "Unknown"

from_cgisai(id) ==
    LET s          == Zfill(id, 12)
        plmn       == Slice(s, 0, 5)
        mcc        == Slice(plmn, 0, 3)
        mnc        == Slice(plmn, 3, 5)
        enodeb_hex == Slice(s, 5, 10)
        enodeb_id  == IntBase16(enodeb_hex)
        cell_hex   == Slice(s, 10, 12)
        cell_id    == IntBase16(cell_hex)
    IN  IF enodeb_id = ValueError \/ cell_id = ValueError
        THEN ValueError
        ELSE [status    |-> "ok",
              mcc       |-> mcc,
              mnc       |-> mnc,
              plmn      |-> plmn,
              enodeb_id |-> enodeb_id.value,
              cell_id   |-> cell_id.value,
              operator  |-> OperatorOf(plmn)]

(***************************************************************************)
(* Decoder runs: one call of NetworkIdentifier.from_cgisai on one input.   *)
(***************************************************************************)
\* Characters the inputs are drawn from: decimal digits, a lower-case and an
\* upper-case hex letter, a letter that is no hex digit, and the characters
\* int() gives a meaning of their own (blank, signs, underscore, x).
FieldAlphabet == {"0", "1", "a", "F", "g", " ", "+", "-", "_", "x"}

MaxShort == 3

PlmnPool ==
    { e[1] : e \in INDONESIA_OPERATORS } \cup
    { <<"5", "1", "0", "9", "9">>, <<"0", "0", "0", "0", "0">> }

Text(n) == [1..n -> FieldAlphabet]

\* A narrower alphabet for the fields varied in all their positions at once.
CoreAlphabet == {"0", "1", "F", "g", "+", "_"}

EnodebFields ==
    [1..5 -> CoreAlphabet]
    \cup { t \o <<"6", "4">> : t \in Text(3) }
    \cup { <<"0", "0">> \o t : t \in Text(3) }

\* The spec's example identifier 510101234501.
ExampleId == <<"5", "1", "0", "1", "0", "1", "2", "3", "4", "5", "0", "1">>

DecodeInputs ==
    \* the eNodeB field varied, with two valid and one invalid cell field
    { <<"5", "1", "0", "1", "0">> \o e \o c :
        e \in EnodebFields, c \in { <<"0", "1">>, <<"F", "a">>, <<"g", "0">> } }
    \cup
    \* every cell field, with every PLMN of the pool
    { p \o e \o c :
        p \in PlmnPool, e \in { <<"1", "2", "3", "4", "5">>, <<"0", "0", "0", "6", "4">> },
        c \in Text(2) }
    \cup
    \* identifiers shorter than 12 characters: every short text, and every
    \* suffix of three identifiers
    UNION { Text(n) : n \in 0..MaxShort }
    \cup
    { SubSeq(id, k, 12) :
        k \in 2..12,
        id \in { ExampleId, <<"5", "1", "0", "1", "1", "a", "B", "c", "D", "e", "F", "a">>,
                 <<"5", "1", "0", "8", "9", "0", "1", "g", "6", "4", "0", "1">> } }
    \cup
    { ExampleId }

NotCalled == [status |-> "not called"]

IdleDecode == cgisai = <<>> /\ network_id = NotCalled /\ directory = INDONESIA_OPERATORS

\* No output has been built: a frame without columns, as pd.DataFrame().
NoColumns == [mapped |-> <<>>, unmapped |-> <<>>]

IdleExec ==
    /\ env = [gz |-> <<>>, mapping |-> <<>>]
    /\ step = "idle"
    /\ calls = <<>>
    /\ outcome = NotCalled

IdleGui ==
    /\ inputs_valid = FALSE
    /\ is_processing = FALSE
    /\ process_btn = "normal"
    /\ log_text = <<>>
    /\ progress = [value |-> 0, label |-> "Ready to process..."]
    /\ main = "idle"
    /\ threads = <<>>
    /\ events = <<>>
    /\ dialog = "none"
    /\ monitors = 0
    /\ starts = 0

IdlePipe ==
    /\ pc = "idle"
    /\ kqiraw = <<>>
    /\ sourceraw = <<>>
    /\ df = <<>>
    /\ mapped_data = <<>>
    /\ unmapped_data = <<>>
    /\ result_mapped = {}
    /\ result_unmapped = {}
    /\ columns = NoColumns
    /\ given = [kqiraw |-> <<>>, sourceraw |-> <<>>]

InitDecode ==
    /\ IdleGui
    /\ cgisai \in DecodeInputs
    /\ network_id = NotCalled
    /\ directory = INDONESIA_OPERATORS
    /\ IdlePipe
    /\ IdleExec

Decode ==
    /\ pc = "idle"
    /\ network_id = NotCalled
    /\ network_id' = from_cgisai(cgisai)
    /\ UNCHANGED <<cgisai, directory, pipeVars, execVars, guiVars>>

\* A later call of from_cgisai, on one of a few inputs.
DecodeAgain ==
    /\ pc = "idle"
    /\ network_id # NotCalled
    /\ \E id \in { ExampleId, <<>>, <<"9", "9", "9", "9", "9", "0", "0", "0", "6", "4", "0", "1">>,
                    <<"5", "1", "0", "1", "1", "0", "0", "0", "6", "4", "0", "g">> } :
         /\ cgisai' = id
         /\ network_id' = from_cgisai(id)
    /\ UNCHANGED <<directory, pipeVars, execVars, guiVars>>

NextDecode == Decode \/ DecodeAgain

SpecDecode == InitDecode /\ [][NextDecode]_vars

(***************************************************************************)
(* infrastructure/file_operations.py: frames.                              *)
(*                                                                         *)
(* A frame whose row order the code reads (the frames process works on)    *)
(* is a sequence of rows; the result of a groupby is the set of its rows,  *)
(* one per group: the order pandas gives them (sorted by key) is not       *)
(* modelled.  A row is a record of its columns.  The ten counters are the  *)
(* function cnt over the counter names.  rec holds the row's index in the  *)
(* frame passed to process and recs the bag of the indices summed into a   *)
(* group: they record which raw record a row came from.                    *)
(***************************************************************************)
Null == "<NA>"

\* The aggregated columns of agg_dict_enodeb, agg_dict_tower and agg_dict.
AggColsEnodeb ==
    {"tcp_rtt", "tcp_rtt_good_count", "tcp_rtt_step1", "tcp_rtt_step1_good_count",
     "server_probe_ul_lost_pkt", "server_probe_dw_lost_pkt",
     "user_probe_ul_lost_pkt", "user_probe_dw_lost_pkt",
     "tcp_ul_packages_withpl", "tcp_dl_packages_withpl"}

AggColsTower ==
    {"tcp_rtt", "tcp_rtt_good_count", "tcp_rtt_step1", "tcp_rtt_step1_good_count",
     "server_probe_ul_lost_pkt", "tcp_ul_packages_withpl",
     "server_probe_dw_lost_pkt", "tcp_dl_packages_withpl",
     "user_probe_ul_lost_pkt", "user_probe_dw_lost_pkt"}

AggColsUnmapped ==
    {"tcp_rtt", "tcp_rtt_good_count", "tcp_rtt_step1", "tcp_rtt_step1_good_count",
     "server_probe_ul_lost_pkt", "tcp_ul_packages_withpl",
     "server_probe_dw_lost_pkt", "tcp_dl_packages_withpl",
     "user_probe_ul_lost_pkt", "user_probe_dw_lost_pkt"}

Rows(frame) == { frame[i] : i \in 1..Len(frame) }

\* The counter of the first row of a group in place of the sum.
SeqSumFirstOnly(rows, col) == IF rows = <<>> THEN 0 ELSE Head(rows).cnt[col]

\* Series.sum() of one counter over the rows of a group, in row order.
RECURSIVE SeqSum(_, _)
SeqSum(rows, col) ==
    IF rows = <<>> THEN 0 ELSE Head(rows).cnt[col] + SeqSum(Tail(rows), col)

RECURSIVE SetSum(_, _)
SetSum(rows, col) ==
    IF rows = {} THEN 0
    ELSE LET r == CHOOSE x \in rows : TRUE
         IN  r.cnt[col] + SetSum(rows \ {r}, col)

RECURSIVE SeqRecs(_)
SeqRecs(rows) ==
    IF rows = <<>> THEN EmptyBag ELSE SetToBag({Head(rows).rec}) (+) SeqRecs(Tail(rows))

RECURSIVE SetRecs(_)
SetRecs(rows) ==
    IF rows = {} THEN EmptyBag
    ELSE LET r == CHOOSE x \in rows : TRUE
         IN  r.recs (+) SetRecs(rows \ {r})

\* GroupBy.first(): the first value of the column in the group that is not null.
RECURSIVE First(_, _)
First(rows, col) ==
    IF rows = <<>> THEN Null
    ELSE IF Head(rows)[col] # Null THEN Head(rows)[col]
    ELSE First(Tail(rows), col)

(***************************************************************************)
(* KQIProcessor._convert_network_id                                        *)
(***************************************************************************)
NetworkIdRaises(frame) ==
    \E i \in 1..Len(frame) : from_cgisai(frame[i].cgisai) = ValueError

WithNetworkId(r) ==
    LET x == from_cgisai(r.cgisai)
    IN  [mcc       |-> x.mcc,
         mnc       |-> x.mnc,
         plmn      |-> x.plmn,
         enodeb_id |-> x.enodeb_id,
         cell_id   |-> x.cell_id,
         operator  |-> x.operator] @@ r

_convert_network_id(frame) == [i \in 1..Len(frame) |-> WithNetworkId(frame[i])]

(***************************************************************************)
(* KQIProcessor._convert_time_column                                       *)
(*                                                                         *)
(* A timecolumn value is a number, digits * 10^exp: 202501011200 is the    *)
(* digits 202501011200 with exp 0, 202501011200.0 the digits               *)
(* 2025010112000 with exp -1, 2.025010112E+11 the digits 2025010112 with   *)
(* exp 2; a float may also be NaN.  The values have at most 15 significant *)
(* digits, so float(x) is within 2^-15 of the value and int(float(x)) is   *)
(* its integer part.                                                       *)
(***************************************************************************)
DecDigits == <<"0", "1", "2", "3", "4", "5", "6", "7", "8", "9">>

DecDigitValue(c) == (CHOOSE i \in 1..10 : DecDigits[i] = c) - 1

RECURSIVE DecValue(_, _)
DecValue(d, acc) ==
    IF d = <<>> THEN acc ELSE DecValue(Tail(d), acc * 10 + DecDigitValue(Head(d)))

RECURSIVE StripZeros(_)
StripZeros(d) == IF d # <<>> /\ Head(d) = "0" THEN StripZeros(Tail(d)) ELSE d

\* f"{int(float(x)):012d}": the digits of the integer part, without leading
\* zeros, padded to twelve; int(float('nan')) raises.
FormatTime(x) ==
    LET whole == IF x.exp >= 0 THEN x.digits \o Repeat("0", x.exp)
                 ELSE Slice(x.digits, 0, Len(x.digits) + x.exp)
    IN  IF x.nan THEN ValueError
        ELSE [status |-> "ok", text |-> Zfill(StripZeros(whole), 12)]

IsLeap(y) == (y % 4 = 0 /\ y % 100 # 0) \/ y % 400 = 0

DaysIn(y, m) ==
    IF m = 2 THEN (IF IsLeap(y) THEN 29 ELSE 28)
    ELSE IF m \in {4, 6, 9, 11} THEN 30 ELSE 31

\* pd.to_datetime(text, format='%Y%m%d%H%M'): exactly twelve digits naming a
\* calendar date and a time of day, within the bounds of a nanosecond
\* Timestamp: 1677-09-21 00:12:43.145 to 2262-04-11 23:47:16.854 (pandas 2,
\* whose to_datetime yields datetime64[ns]).
ParsesAsDateTime(text) ==
    /\ Len(text) = 12
    /\ LET y  == DecValue(Slice(text, 0, 4), 0)
           m  == DecValue(Slice(text, 4, 6), 0)
           d  == DecValue(Slice(text, 6, 8), 0)
           hh == DecValue(Slice(text, 8, 10), 0)
           mm == DecValue(Slice(text, 10, 12), 0)
           day  == DecValue(Slice(text, 0, 8), 0)
           time == DecValue(Slice(text, 8, 12), 0)
       IN  /\ day > 16770921 \/ (day = 16770921 /\ time >= 13)
           /\ day < 22620411 \/ (day = 22620411 /\ time <= 2347)
           /\ m \in 1..12
           /\ d \in 1..DaysIn(y, m)
           /\ hh \in 0..23
           /\ mm \in 0..59

\* The date written day first.
DateOfDayFirst(text) ==
    Slice(text, 6, 8) \o <<"/">> \o Slice(text, 4, 6) \o <<"/">> \o Slice(text, 0, 4)

\* strftime('%m/%d/%Y') and strftime('%H:%M') of the parsed value.
DateOf(text) == Slice(text, 4, 6) \o <<"/">> \o Slice(text, 6, 8) \o <<"/">> \o Slice(text, 0, 4)
TimeOf(text) == Slice(text, 8, 10) \o <<":">> \o Slice(text, 10, 12)

TimeColumnRaises(frame) ==
    \E i \in 1..Len(frame) :
        \/ FormatTime(frame[i].timecolumn) = ValueError
        \/ ~ParsesAsDateTime(FormatTime(frame[i].timecolumn).text)

WithTime(r) ==
    LET t == FormatTime(r.timecolumn).text
    IN  [timecolumn |-> t, datetime |-> t, Date |-> DateOf(t), Time |-> TimeOf(t)] @@ r

_convert_time_column(frame) == [i \in 1..Len(frame) |-> WithTime(frame[i])]

(***************************************************************************)
(* KQIProcessor._map_tower_data: DataFrame.merge(on='enodeb_id',           *)
(* how='left').  Each left row, in left order, is paired with every right  *)
(* row of the same key, in right order; a left row without a partner is    *)
(* kept once with null right columns.                                      *)
(***************************************************************************)
Matches(r, right) == SelectSeq(right, LAMBDA m : m.enodeb_id = r.enodeb_id)

JoinedWith(r, m) == [tower_id |-> m.tower_id, swe_l5 |-> m.swe_l5] @@ r

\* An inner join: a left row without a partner is dropped.
LeftRowMergedInner(r, right) ==
    LET ms == Matches(r, right)
    IN  [j \in 1..Len(ms) |-> JoinedWith(r, ms[j])]

LeftRowMerged(r, right) ==
    LET ms == Matches(r, right)
    IN  IF ms = <<>>
        THEN << [tower_id |-> Null, swe_l5 |-> Null] @@ r >>
        ELSE [j \in 1..Len(ms) |-> JoinedWith(r, ms[j])]

RECURSIVE MergeLeft(_, _)
MergeLeft(left, right) ==
    IF left = <<>> THEN <<>>
    ELSE LeftRowMerged(Head(left), right) \o MergeLeft(Tail(left), right)

_map_tower_data(frame, right) == MergeLeft(frame, right)

(***************************************************************************)
(* Arithmetic of the metrics.  A float quotient of two counters is kept    *)
(* as the exact fraction <<numerator, denominator>>, denominator > 0: for  *)
(* counters of this size the double nearest to the fraction rounds to the  *)
(* same integer (or the same hundredth) as the fraction itself.            *)
(***************************************************************************)
\* np.where(den > 0, num / den, 0)
WhereDiv(num, den) == IF den > 0 THEN <<num, den>> ELSE <<0, 1>>

FracSub(a, b) == <<a[1] * b[2] - b[1] * a[2], a[2] * b[2]>>

FloorDiv(n, d) == IF n >= 0 THEN n \div d ELSE 0 - (((0 - n) + d - 1) \div d)

\* Rounding with ties away from zero towards plus infinity.
RoundHalfUp(n, d) == FloorDiv(2 * n + d, 2 * d)

\* numpy's rint on n / d, d > 0: to the nearest integer, a tie to the even one.
RoundHalfEven(n, d) ==
    LET fl  == FloorDiv(n, d)
        rem == n - fl * d
    IN  IF 2 * rem < d THEN fl
        ELSE IF 2 * rem > d THEN fl + 1
        ELSE IF fl % 2 = 0 THEN fl ELSE fl + 1

IsTie(n, d) == 2 * (n - FloorDiv(n, d) * d) = d

\* n / d is a double exactly: in lowest terms its denominator is a power of two.
IsDyadic(n, d) == \E k \in 0..20 : 2^k <= d /\ (n * 2^k) % d = 0

\* Series.round(0).astype(int) of a quotient computed by one division: the
\* double nearest to n / d lies on the same side of every half as n / d.
RoundToInt(q) == RoundHalfEven(q[1], q[2])

\* The difference of the two rounded delays.
RoundDiffOfRounded(a, b) == {RoundHalfEven(a[1], a[2]) - RoundHalfEven(b[1], b[2])}

\* round(0).astype(int) of the float difference a - b.  When the exact
\* difference is a tie and the operands are not exact doubles, the float
\* difference lies just beside the tie and either neighbour can come out.
RoundDiffToInt(a, b) ==
    LET q == FracSub(a, b)
    IN  IF IsTie(q[1], q[2]) /\ ~IsDyadic(a[1], a[2])
        THEN {FloorDiv(q[1], q[2]), FloorDiv(q[1], q[2]) + 1}
        ELSE {RoundHalfEven(q[1], q[2])}

\* Cutting lost / total * 100 after two decimals.
RoundTo2Truncated(lost, total) ==
    LET q == WhereDiv(lost * 100, total)
    IN  {FloorDiv(q[1] * 100, q[2])}

\* Series.round(2) of lost / total * 100, held as the number of hundredths;
\* either neighbour at a tie whose quotient is not an exact double.
RoundTo2(lost, total) ==
    LET q == WhereDiv(lost * 100, total)
    IN  IF IsTie(q[1] * 100, q[2]) /\ ~IsDyadic(lost, q[2])
        THEN {FloorDiv(q[1] * 100, q[2]), FloorDiv(q[1] * 100, q[2]) + 1}
        ELSE {RoundHalfEven(q[1] * 100, q[2])}

\* lambda x: f'Indonesia-{x}' if x != 'Unknown' else 'Unknown'
National(operator) ==
    IF operator # "Unknown" THEN <<"Indonesia-", operator>> ELSE <<"Unknown">>

\* The sets holding one of Row(a) for each group a.
OneRowEach(groups, Row(_)) ==
    LET all == UNION { Row(a) : a \in groups }
    IN  { { f[a] : a \in groups } :
            f \in { h \in [groups -> all] : \A a \in groups : h[a] \in Row(a) } }

(***************************************************************************)
(* KQIProcessor._aggregate_daily                                           *)
(***************************************************************************)
Group(frame, Key(_), k) == SelectSeq(frame, LAMBDA r : Key(r) = k)

KeyEnodeb(r) == <<r.operator, r.Date, r.enodeb_id>>

\* One row of df_enodeb: the sums of the group and its first tower_id / swe_l5.
Stage1Row(g) ==
    [operator  |-> g[1].operator,
     Date      |-> g[1].Date,
     enodeb_id |-> g[1].enodeb_id,
     cnt       |-> [c \in AggColsEnodeb |-> SeqSum(g, c)],
     tower_id  |-> First(g, "tower_id"),
     swe_l5    |-> First(g, "swe_l5"),
     recs      |-> SeqRecs(g)]

GroupByEnodeb(frame) ==
    { Stage1Row(Group(frame, KeyEnodeb, k)) : k \in { KeyEnodeb(r) : r \in Rows(frame) } }

KeyTower(r) == <<r.operator, r.Date, r.tower_id, r.swe_l5>>

Stage2Row(k, g) ==
    [operator |-> k[1],
     Date     |-> k[2],
     tower_id |-> k[3],
     swe_l5   |-> k[4],
     cnt      |-> [c \in AggColsTower |-> SetSum(g, c)],
     recs     |-> SetRecs(g)]

\* groupby with the default dropna=True: a group whose key holds a null is
\* left out.
GroupByTowerDropna(rows) ==
    { Stage2Row(k, { r \in rows : KeyTower(r) = k }) :
        k \in { KeyTower(r) : r \in { x \in rows : x.tower_id # Null /\ x.swe_l5 # Null } } }

GroupByTower(rows) ==
    { Stage2Row(k, { r \in rows : KeyTower(r) = k }) : k \in { KeyTower(r) : r \in rows } }

\* STEP 3 and the renaming, rounding and selection of the output columns:
\* the rows the group can come out as (one, unless a rounding is at a tie
\* of inexact floats).  The loss rates are held in hundredths of a percent.
DailyRow(a) ==
    LET e2e == WhereDiv(a.cnt["tcp_rtt"], a.cnt["tcp_rtt_good_count"])
        syn == WhereDiv(a.cnt["tcp_rtt_step1"], a.cnt["tcp_rtt_step1_good_count"])
    IN  { [Opr      |-> a.operator,
           Date     |-> a.Date,
           NATIONAL |-> National(a.operator),
           SWE_L5   |-> a.swe_l5,
           SWE_L6   |-> a.tower_id,
           E2E_Delay         |-> RoundToInt(e2e),
           SYN_SYN_ACK_Delay |-> RoundToInt(syn),
           SYN_ACK_ACK_Delay |-> saa,
           Server_Side_Uplink_Loss_Rate   |-> sul,
           Server_Side_Downlink_Loss_Rate |-> sdl,
           Client_Side_Uplink_Loss_Rate   |-> cul,
           Client_Side_Downlink_Loss_Rate |-> cdl,
           cnt      |-> a.cnt,
           recs     |-> a.recs] :
          saa \in RoundDiffToInt(e2e, syn),
          sdl \in RoundTo2(a.cnt["server_probe_dw_lost_pkt"], a.cnt["tcp_dl_packages_withpl"]),
          sul \in RoundTo2(a.cnt["server_probe_ul_lost_pkt"], a.cnt["tcp_ul_packages_withpl"]),
          cdl \in RoundTo2(a.cnt["user_probe_dw_lost_pkt"], a.cnt["tcp_dl_packages_withpl"]),
          cul \in RoundTo2(a.cnt["user_probe_ul_lost_pkt"], a.cnt["tcp_ul_packages_withpl"]) }

\* The frames the method can return: one output row for each group.
_aggregate_daily(frame) ==
    IF frame = <<>> THEN {{}}
    ELSE OneRowEach(GroupByTower(GroupByEnodeb(frame)), DailyRow)

(***************************************************************************)
(* KQIProcessor._aggregate_unmapped                                        *)
(***************************************************************************)
KeyUnmapped(r) == <<r.operator, r.Date, r.enodeb_id, r.plmn>>

UnmappedGroupRow(g) ==
    [operator  |-> g[1].operator,
     Date      |-> g[1].Date,
     enodeb_id |-> g[1].enodeb_id,
     plmn      |-> g[1].plmn,
     cnt       |-> [c \in AggColsUnmapped |-> SeqSum(g, c)],
     recs      |-> SeqRecs(g)]

GroupByUnmapped(frame) ==
    { UnmappedGroupRow(Group(frame, KeyUnmapped, k)) :
        k \in { KeyUnmapped(r) : r \in Rows(frame) } }

\* The metrics and output columns of one unresolved group.
UnmappedRow(a) ==
    LET e2e == WhereDiv(a.cnt["tcp_rtt"], a.cnt["tcp_rtt_good_count"])
        syn == WhereDiv(a.cnt["tcp_rtt_step1"], a.cnt["tcp_rtt_step1_good_count"])
    IN  { [Opr      |-> a.operator,
           Date     |-> a.Date,
           NATIONAL |-> National(a.operator),
           PLMN     |-> a.plmn,
           eNodeBID |-> a.enodeb_id,
           E2E_Delay         |-> RoundToInt(e2e),
           SYN_SYN_ACK_Delay |-> RoundToInt(syn),
           SYN_ACK_ACK_Delay |-> saa,
           Server_Side_Uplink_Loss_Rate   |-> sul,
           Server_Side_Downlink_Loss_Rate |-> sdl,
           Client_Side_Uplink_Loss_Rate   |-> cul,
           Client_Side_Downlink_Loss_Rate |-> cdl,
           cnt      |-> a.cnt,
           recs     |-> a.recs] :
          saa \in RoundDiffToInt(e2e, syn),
          sdl \in RoundTo2(a.cnt["server_probe_dw_lost_pkt"], a.cnt["tcp_dl_packages_withpl"]),
          sul \in RoundTo2(a.cnt["server_probe_ul_lost_pkt"], a.cnt["tcp_ul_packages_withpl"]),
          cdl \in RoundTo2(a.cnt["user_probe_dw_lost_pkt"], a.cnt["tcp_dl_packages_withpl"]),
          cul \in RoundTo2(a.cnt["user_probe_ul_lost_pkt"], a.cnt["tcp_ul_packages_withpl"]) }

_aggregate_unmapped(frame) ==
    IF frame = <<>> THEN {{}}
    ELSE OneRowEach(GroupByUnmapped(frame), UnmappedRow)

(***************************************************************************)
(* The column index of the two outputs.  A column index is the sequence of *)
(* the column names.  reset_index() puts the grouping keys first, then the *)
(* aggregated columns in the order of the agg dict; an assignment to a new *)
(* column appends it; rename maps names in place; result[output_cols]      *)
(* keeps the listed columns in the listed order and raises KeyError when   *)
(* one is not there.                                                       *)
(***************************************************************************)
\* The columns assigned in STEP 3, in the order of the assignments.
MetricColumns ==
    <<"E2E Delay(ms)", "SYN-SYN ACK Delay(ms)", "SYN ACK-ACK Delay(ms)",
      "Server Side Downlink TCP Packet Loss Rate(%)",
      "Server Side Uplink TCP Packet Loss Rate(%)",
      "Client Side Downlink TCP Packet Loss Rate(%)",
      "Client Side Uplink TCP Packet Loss Rate(%)",
      "NATIONAL">>

\* The sums of agg_dict_tower and of agg_dict, in dict order.
SummedColumns ==
    <<"tcp_rtt", "tcp_rtt_good_count", "tcp_rtt_step1", "tcp_rtt_step1_good_count",
      "server_probe_ul_lost_pkt", "tcp_ul_packages_withpl",
      "server_probe_dw_lost_pkt", "tcp_dl_packages_withpl",
      "user_probe_ul_lost_pkt", "user_probe_dw_lost_pkt">>

\* The renaming both methods apply to the counters.
RenameCounters ==
    { <<"operator", "Opr">>,
      <<"tcp_rtt", "TCP Connect Delay(ms)">>,
      <<"tcp_rtt_good_count", "TCP Connect RTT Count(times)">>,
      <<"tcp_rtt_step1", "TCP Connect Step1 Delay(ms)">>,
      <<"tcp_rtt_step1_good_count", "TCP Connect RTT Step1 Count(times)">>,
      <<"server_probe_ul_lost_pkt", "Server Side Uplink TCP Packet Losses(Packets)">>,
      <<"tcp_ul_packages_withpl", "TCP Uplink Packets (with Payload)(Packets)">>,
      <<"server_probe_dw_lost_pkt", "Server Side Downlink TCP Packet Losses">>,
      <<"tcp_dl_packages_withpl", "TCP Downlink Packets (with Payload)(Packets)">>,
      <<"user_probe_ul_lost_pkt", "Client Side Uplink TCP Packet Losses(Packets)">>,
      <<"user_probe_dw_lost_pkt", "Client Side Downlink TCP Packet Losses(Packets)">> }

\* DataFrame.rename(columns=mapping): a name the mapping has no key for stays.
Renamed(cols, mapping) ==
    [i \in 1..Len(cols) |->
        IF \E m \in mapping : m[1] = cols[i]
        THEN (CHOOSE m \in mapping : m[1] = cols[i])[2]
        ELSE cols[i]]

\* The seventeen metric and count columns both output_cols lists end with.
OutputMetricColumns ==
    <<"E2E Delay(ms)",
      "TCP Connect Delay(ms)",
      "TCP Connect RTT Count(times)",
      "SYN-SYN ACK Delay(ms)",
      "TCP Connect Step1 Delay(ms)",
      "TCP Connect RTT Step1 Count(times)",
      "SYN ACK-ACK Delay(ms)",
      "Server Side Uplink TCP Packet Loss Rate(%)",
      "Server Side Uplink TCP Packet Losses(Packets)",
      "TCP Uplink Packets (with Payload)(Packets)",
      "Server Side Downlink TCP Packet Loss Rate(%)",
      "Server Side Downlink TCP Packet Losses",
      "TCP Downlink Packets (with Payload)(Packets)",
      "Client Side Uplink TCP Packet Loss Rate(%)",
      "Client Side Uplink TCP Packet Losses(Packets)",
      "Client Side Downlink TCP Packet Loss Rate(%)",
      "Client Side Downlink TCP Packet Losses(Packets)">>

\* output_cols with the site label and the tower swapped.
output_cols_swapped == <<"Opr", "Date", "NATIONAL", "SWE_L6", "SWE_L5">> \o OutputMetricColumns

\* output_cols of _aggregate_daily and of _aggregate_unmapped.
output_cols == <<"Opr", "Date", "NATIONAL", "SWE_L5", "SWE_L6">> \o OutputMetricColumns

output_cols_unmapped == <<"Opr", "Date", "NATIONAL", "PLMN", "eNodeBID">> \o OutputMetricColumns

\* The columns of result when _aggregate_daily reaches its return statement.
DailyColumns ==
    Renamed(<<"operator", "Date", "tower_id", "swe_l5">> \o SummedColumns \o MetricColumns,
            RenameCounters \cup { <<"swe_l5", "SWE_L5">>, <<"tower_id", "SWE_L6">> })

\* The columns of result when _aggregate_unmapped reaches its return statement.
UnmappedColumns ==
    Renamed(<<"operator", "Date", "enodeb_id", "plmn">> \o SummedColumns \o MetricColumns,
            RenameCounters \cup { <<"enodeb_id", "eNodeBID">>, <<"plmn", "PLMN">> })

\* result[wanted]
SelectColumns(cols, wanted) ==
    IF \A i \in 1..Len(wanted) : \E j \in 1..Len(cols) : cols[j] = wanted[i]
    THEN [status |-> "ok", columns |-> wanted]
    ELSE [status |-> "KeyError"]

\* The column index _aggregate_daily and _aggregate_unmapped return for a frame.
ColumnsDaily(frame) ==
    IF frame = <<>> THEN [status |-> "ok", columns |-> <<>>]
    ELSE SelectColumns(DailyColumns, output_cols)

ColumnsUnmapped(frame) ==
    IF frame = <<>> THEN [status |-> "ok", columns |-> <<>>]
    ELSE SelectColumns(UnmappedColumns, output_cols_unmapped)

(***************************************************************************)
(* DataRepository.load_mapping_file.                                       *)
(*                                                                         *)
(* A mapping file is its header, the sequence of the column names as       *)
(* read_csv gives them (text), and its data rows.  A row holds the cell    *)
(* under each required column the header has: tower_id and swe_l5 a string *)
(* (Null when the cell is empty), enodeb_id the text of the cell.  The     *)
(* tower and site cells of the files carry no surrounding blanks, so       *)
(* astype(str).str.strip() leaves a string as it is and turns an empty     *)
(* cell into "nan".                                                        *)
(***************************************************************************)
required_cols ==
    << <<"T", "O", "W", "E", "R", " ", "I", "D">>,
       <<"S", "W", "E", "_", "L", "5">>,
       <<"e", "N", "o", "d", "e", "B", "I", "d">> >>

\* df.columns.str.strip()
StrippedColumns(header) == [i \in 1..Len(header) |-> Strip(header[i])]

\* Every required column counts as missing as soon as one is.
missing_colsAll(cols) ==
    IF \E k \in 1..3 : \A i \in 1..Len(cols) : cols[i] # required_cols[k]
    THEN required_cols ELSE <<>>

\* [col for col in required_cols if col not in df.columns]
missing_cols(cols) ==
    SelectSeq(required_cols, LAMBDA c : \A i \in 1..Len(cols) : cols[i] # c)

\* df[required_cols]: every column of a listed name, so a name the header
\* has twice gives two columns.
SelectedCount(cols) ==
    Cardinality({ i \in 1..Len(cols) : \E k \in 1..3 : cols[i] = required_cols[k] })

\* Every cell counts as a number: what is no number reads as 0.
to_numericZero(text) ==
    IF text # <<>> /\ \A i \in 1..Len(text) : (\E d \in 1..10 : DecDigits[d] = text[i])
    THEN [status |-> "ok", value |-> DecValue(text, 0)]
    ELSE [status |-> "ok", value |-> 0]

\* pd.to_numeric(errors='coerce') of one cell followed by astype(int): an
\* optional sign, digits and an optional fraction are a number, of which
\* astype(int) keeps the integer part; anything else, and the empty cell, NaN.
to_numeric(text) ==
    LET signed == text # <<>> /\ text[1] \in {"+", "-"}
        u      == IF signed THEN Tail(text) ELSE text
        dot    == IF \E i \in 1..Len(u) : u[i] = "."
                  THEN CHOOSE i \in 1..Len(u) : u[i] = "." /\ \A j \in 1..(i - 1) : u[j] # "."
                  ELSE Len(u) + 1
        whole  == SubSeq(u, 1, dot - 1)
        frac   == SubSeq(u, dot + 1, Len(u))
        digits == \A i \in 1..Len(whole) : (\E d \in 1..10 : DecDigits[d] = whole[i])
        fdigits == \A i \in 1..Len(frac) : (\E d \in 1..10 : DecDigits[d] = frac[i])
    IN  IF digits /\ fdigits /\ Len(whole) + Len(frac) > 0
        THEN [status |-> "ok",
              value  |-> IF signed /\ text[1] = "-" THEN 0 - DecValue(whole, 0)
                         ELSE DecValue(whole, 0)]
        ELSE [status |-> "NaN"]

\* The rows load_mapping_file keeps, in file order; line is the row's index.
\* astype(str) makes "nan" of an empty tower or site cell.
RECURSIVE KeptRows(_, _)
KeptRows(rows, line) ==
    IF rows = <<>> THEN <<>>
    ELSE LET r == Head(rows)
             n == to_numeric(r.enodeb_id)
         IN  (IF n.status = "NaN" THEN <<>>
              ELSE << [tower_id  |-> IF r.tower_id = Null THEN "nan" ELSE r.tower_id,
                       swe_l5    |-> IF r.swe_l5 = Null THEN "nan" ELSE r.swe_l5,
                       enodeb_id |-> n.value,
                       line      |-> line] >>)
             \o KeptRows(Tail(rows), line + 1)

\* What the call returns or raises; warned: the Warning line was printed,
\* with dropped_count in it.
load_mapping_file(file) ==
    LET cols    == StrippedColumns(file.header)
        missing == missing_cols(cols)
        kept    == KeptRows(file.rows, 0)
        dropped == Len(file.rows) - Len(kept)
    IN  IF missing # <<>>
        THEN [status    |-> "ValueError",
              message   |-> "Mapping file missing required columns",
              missing   |-> missing,
              available |-> cols]
        ELSE IF SelectedCount(cols) # 3
        THEN [status    |-> "ValueError",
              message   |-> "Length mismatch",
              missing   |-> <<>>,
              available |-> cols]
        ELSE [status        |-> "ok",
              table         |-> kept,
              warned        |-> dropped > 0,
              dropped_count |-> dropped]

(***************************************************************************)
(* Pipeline runs: one call of KQIProcessor.process(kqiraw, sourceraw).     *)
(***************************************************************************)
MaxRecords == 2
MaxRefRows == 2
MaxDelayCounter == 5
MaxLostCounter == 2

Cnt(rtt, good, rtt1, good1, sul, sdl, cul, cdl, ulp, dlp) ==
    [tcp_rtt                  |-> rtt,
     tcp_rtt_good_count       |-> good,
     tcp_rtt_step1            |-> rtt1,
     tcp_rtt_step1_good_count |-> good1,
     server_probe_ul_lost_pkt |-> sul,
     server_probe_dw_lost_pkt |-> sdl,
     user_probe_ul_lost_pkt   |-> cul,
     user_probe_dw_lost_pkt   |-> cdl,
     tcp_ul_packages_withpl   |-> ulp,
     tcp_dl_packages_withpl   |-> dlp]

Telkomsel10 == <<"5", "1", "0", "1", "0">>
Telkomsel01 == <<"5", "1", "0", "0", "1">>
XL11        == <<"5", "1", "0", "1", "1">>
Foreign     == <<"9", "9", "9", "9", "9">>

Enb100 == <<"0", "0", "0", "6", "4">>
Enb200 == <<"0", "0", "0", "C", "8">>
Enb300 == <<"0", "0", "1", "2", "c">>
EnbBad == <<"0", "0", "0", "g", "4">>

Number(d) == [digits |-> d, exp |-> 0, nan |-> FALSE]

\* A value read with a fraction or an exponent: digits * 10^exp.
Scientific(d, e) == [digits |-> d, exp |-> e, nan |-> FALSE]

Day1Noon == Number(<<"2", "0", "2", "5", "0", "1", "0", "1", "1", "2", "0", "0">>)
Day1Late == Number(<<"2", "0", "2", "5", "0", "1", "0", "1", "2", "3", "5", "9">>)
Day2     == Number(<<"2", "0", "2", "5", "0", "1", "0", "2", "0", "0", "0", "0">>)
Month13  == Number(<<"2", "0", "2", "5", "1", "3", "0", "1", "1", "2", "0", "0">>)
NotANumber == [digits |-> <<>>, exp |-> 0, nan |-> TRUE]

CountersA == Cnt(100, 10, 40, 4, 1, 2, 3, 4, 50, 60)
CountersB == Cnt(150, 15, 35, 6, 0, 1, 0, 1, 30, 40)
CountersC == Cnt(7, 2, 9, 2, 2, 0, 1, 0, 7, 0)

Raw(id, t, c) == [cgisai |-> id, timecolumn |-> t, cnt |-> c]

\* The raw records the structural runs are built from: two cells of eNodeB
\* 100 at two times of one day, eNodeB 200 on that day and (unknown operator)
\* on the next, and eNodeB 300 under two PLMNs of one operator.
RecordPool ==
    { Raw(Telkomsel10 \o Enb100 \o <<"0", "1">>, Day1Noon, CountersA),
      Raw(Telkomsel10 \o Enb100 \o <<"0", "2">>, Day1Late, CountersB),
      Raw(Telkomsel10 \o Enb200 \o <<"0", "1">>, Day1Noon, CountersC),
      Raw(Foreign \o Enb200 \o <<"F", "f">>, Day2, CountersB),
      Raw(Telkomsel01 \o Enb300 \o <<"0", "1">>, Day1Noon, CountersA),
      Raw(Telkomsel10 \o Enb300 \o <<"0", "1">>, Day1Late, CountersC) }

\* Records process fails on: an identifier that does not decode, a timestamp
\* that is no date, a timestamp that is no number.
BadRecordPool ==
    { Raw(Telkomsel10 \o EnbBad \o <<"0", "1">>, Day1Noon, CountersA),
      Raw(Telkomsel10 \o Enb100 \o <<"0", "1">>, Month13, CountersA),
      Raw(Telkomsel10 \o Enb100 \o <<"0", "1">>, NotANumber, CountersA) }

Ref(t, s, e) == [tower_id |-> t, swe_l5 |-> s, enodeb_id |-> e]

\* The rows a reference table, as load_mapping_file returns it, is built from:
\* tower_id and swe_l5 are strings, enodeb_id an integer.
RefPool ==
    { Ref("T1", "S1", 100), Ref("T2", "S2", 100), Ref("T1", "S1", 200), Ref("T1", "S2", 200) }

\* Reference tables, as a caller of process can pass them, with rows that
\* have no site label.
NullSiteTables ==
    { <<Ref("T1", Null, 100)>>,
      <<Ref("T1", Null, 100), Ref("T1", Null, 200)>>,
      <<Ref("T1", Null, 100), Ref("T1", "S1", 200)>>,
      <<Ref("T1", Null, 100), Ref("T2", "S2", 100)>>,
      <<Ref("T1", Null, 100), Ref("T2", Null, 300)>> }

SeqsUpTo(S, lo, hi) == UNION { [1..n -> S] : n \in lo..hi }

\* The frame load_csv_files returns for the records: index 0, 1, ...
Frame(records) == [i \in 1..Len(records) |-> [rec |-> i - 1] @@ records[i]]

PacketTotals == {0, 3, 7, 160}

DelayRecords ==
    { Raw(Telkomsel10 \o Enb100 \o <<"0", "1">>, Day1Noon,
          Cnt(rtt, good, rtt1, good1, 0, 0, 0, 0, 0, 0)) :
        rtt \in 0..MaxDelayCounter, good \in 0..MaxDelayCounter,
        rtt1 \in 0..MaxDelayCounter, good1 \in 0..MaxDelayCounter }

LossRecords ==
    { Raw(Telkomsel10 \o Enb100 \o <<"0", "1">>, Day1Noon,
          Cnt(0, 0, 0, 0, sul, sdl, cul, cdl, ulp, dlp)) :
        sul \in 0..MaxLostCounter, sdl \in 0..MaxLostCounter,
        cul \in 0..MaxLostCounter, cdl \in 0..MaxLostCounter,
        ulp \in PacketTotals, dlp \in PacketTotals }

BadFrames ==
    { <<b>> : b \in BadRecordPool }
    \cup { <<g, b>> : g \in RecordPool, b \in BadRecordPool }
    \cup { <<b, g>> : g \in RecordPool, b \in BadRecordPool }

\* Timestamps: every combination of the fields below as an integer, the
\* ones of 2025 also as a float (.0 and .7) and, on the full hour, with an
\* exponent; a value of 13 digits, one of 11, 0, and 2.0251E+11.
StampFields ==
    [year   |-> { <<"1", "6", "7", "7">>, <<"1", "6", "7", "8">>, <<"2", "0", "2", "4">>,
                  <<"2", "0", "2", "5">>, <<"2", "2", "6", "1">>, <<"2", "2", "6", "2">> },
     month  |-> { <<"0", "0">>, <<"0", "1">>, <<"0", "2">>, <<"0", "4">>, <<"0", "9">>,
                  <<"1", "2">>, <<"1", "3">> },
     day    |-> { <<"0", "0">>, <<"0", "1">>, <<"2", "8">>, <<"2", "9">>, <<"3", "0">>,
                  <<"3", "1">>, <<"3", "2">> },
     hour   |-> { <<"0", "0">>, <<"2", "3">>, <<"2", "4">> },
     minute |-> { <<"0", "0">>, <<"5", "9">>, <<"6", "0">> }]

TimePool ==
    { Number(y \o m \o d \o h \o n) :
        y \in StampFields.year, m \in StampFields.month, d \in StampFields.day,
        h \in StampFields.hour, n \in StampFields.minute }
    \cup
    { Scientific(<<"2", "0", "2", "5">> \o m \o d \o h \o n \o f, -1) :
        m \in StampFields.month, d \in StampFields.day,
        h \in StampFields.hour, n \in StampFields.minute, f \in { <<"0">>, <<"7">> } }
    \cup
    { Scientific(<<"2", "0", "2", "5">> \o m \o d \o h, 2) :
        m \in StampFields.month, d \in StampFields.day, h \in StampFields.hour }
    \cup
    { Number(Day1Noon.digits \o <<"0">>), Number(SubSeq(Day1Noon.digits, 1, 11)), Number(<<>>),
      Scientific(<<"2", "0", "2", "5", "1">>, 7) }

\* The arguments of process: runs of up to MaxRecords pool records against
\* every reference table of up to two rows and runs of up to two pool records
\* against every reference table of up to MaxRefRows rows, runs that hold a
\* bad record, runs of one record with
\* every small counter value, resolved and unresolved, runs of one record
\* with every timestamp, runs of two records that differ in their
\* timestamp only, and runs of two pool records against a reference table
\* with rows that have no site label.
Init ==
    /\ IdleGui
    /\ IdleDecode
    /\ IdleExec
    /\ pc = "start"
    /\ \/ \E k \in SeqsUpTo(RecordPool, 1, MaxRecords), m \in SeqsUpTo(RefPool, 0, 2) :
            kqiraw = Frame(k) /\ sourceraw = m
       \/ \E k \in SeqsUpTo(RecordPool, 1, 2), m \in SeqsUpTo(RefPool, 0, MaxRefRows) :
            kqiraw = Frame(k) /\ sourceraw = m
       \/ \E k \in BadFrames :
            kqiraw = Frame(k) /\ sourceraw = <<Ref("T1", "S1", 100)>>
       \/ \E r \in DelayRecords \cup LossRecords, m \in { <<>>, <<Ref("T1", "S1", 100)>> } :
            kqiraw = Frame(<<r>>) /\ sourceraw = m
       \/ \E t \in TimePool :
            /\ kqiraw = Frame(<<Raw(Telkomsel10 \o Enb100 \o <<"0", "1">>, t, CountersA)>>)
            /\ sourceraw = <<Ref("T1", "S1", 100)>>
       \/ \E t1, t2 \in { Day1Noon, Day1Late, Day2, Scientific(SubSeq(Day1Noon.digits, 1, 10), 2),
                            Scientific(Day1Late.digits \o <<"7">>, -1) },
             m \in { <<>>, <<Ref("T1", "S1", 100)>> } :
            /\ kqiraw = Frame(<<Raw(XL11 \o Enb100 \o <<"0", "1">>, t1, CountersA),
                                Raw(XL11 \o Enb100 \o <<"0", "1">>, t2, CountersA)>>)
            /\ sourceraw = m
       \/ \E r1, r2 \in RecordPool, m \in NullSiteTables :
            kqiraw = Frame(<<r1, r2>>) /\ sourceraw = m
    /\ df = <<>>
    /\ mapped_data = <<>>
    /\ unmapped_data = <<>>
    /\ result_mapped = {}
    /\ result_unmapped = {}
    /\ columns = NoColumns
    /\ given = [kqiraw |-> kqiraw, sourceraw |-> sourceraw]

\* kqiraw = self._convert_network_id(kqiraw): the columns are added to the
\* caller's frame; a decode error leaves it as it was.
ConvertNetworkId ==
    /\ pc = "start"
    /\ IF NetworkIdRaises(kqiraw)
       THEN pc' = "raised" /\ UNCHANGED kqiraw
       ELSE pc' = "network_id" /\ kqiraw' = _convert_network_id(kqiraw)
    /\ UNCHANGED <<decodeVars, guiVars, execVars, given, sourceraw, df, mapped_data, unmapped_data,
                   result_mapped, result_unmapped, columns>>

\* kqiraw = self._convert_time_column(kqiraw): timecolumn is overwritten with
\* the formatted text before the text is parsed.
ConvertTimeColumn ==
    /\ pc = "network_id"
    /\ IF \E i \in 1..Len(kqiraw) : FormatTime(kqiraw[i].timecolumn) = ValueError
       THEN pc' = "raised" /\ UNCHANGED kqiraw
       ELSE IF TimeColumnRaises(kqiraw)
       THEN /\ pc' = "raised"
            /\ kqiraw' = [i \in 1..Len(kqiraw) |->
                            [kqiraw[i] EXCEPT !.timecolumn = FormatTime(@).text]]
       ELSE pc' = "time" /\ kqiraw' = _convert_time_column(kqiraw)
    /\ UNCHANGED <<decodeVars, guiVars, execVars, given, sourceraw, df, mapped_data, unmapped_data,
                   result_mapped, result_unmapped, columns>>

\* kqiraw = self._map_tower_data(kqiraw, sourceraw): a new frame.
MapTowerData ==
    /\ pc = "time"
    /\ df' = _map_tower_data(kqiraw, sourceraw)
    /\ pc' = "merged"
    /\ UNCHANGED <<decodeVars, guiVars, execVars, given, kqiraw, sourceraw, mapped_data, unmapped_data,
                   result_mapped, result_unmapped, columns>>

\* mapped_data = kqiraw[kqiraw['tower_id'].notna()], unmapped_data = the rest.
SplitMapped ==
    /\ pc = "merged"
    /\ mapped_data' = SelectSeq(df, LAMBDA r : r.tower_id # Null)
    /\ unmapped_data' = SelectSeq(df, LAMBDA r : r.tower_id = Null)
    /\ pc' = "split"
    /\ UNCHANGED <<decodeVars, guiVars, execVars, given, kqiraw, sourceraw, df, result_mapped, result_unmapped,
                   columns>>

AggregateDaily ==
    /\ pc = "split"
    /\ IF ColumnsDaily(mapped_data).status = "KeyError"
       THEN pc' = "raised" /\ UNCHANGED <<result_mapped, columns>>
       ELSE /\ result_mapped' \in _aggregate_daily(mapped_data)
            /\ columns' = [columns EXCEPT !.mapped = ColumnsDaily(mapped_data).columns]
            /\ pc' = "daily"
    /\ UNCHANGED <<decodeVars, guiVars, execVars, given, kqiraw, sourceraw, df, mapped_data, unmapped_data,
                   result_unmapped>>

AggregateUnmapped ==
    /\ pc = "daily"
    /\ IF ColumnsUnmapped(unmapped_data).status = "KeyError"
       THEN pc' = "raised" /\ UNCHANGED <<result_unmapped, columns>>
       ELSE /\ result_unmapped' \in _aggregate_unmapped(unmapped_data)
            /\ columns' = [columns EXCEPT !.unmapped = ColumnsUnmapped(unmapped_data).columns]
            /\ pc' = "done"
    /\ UNCHANGED <<decodeVars, guiVars, execVars, given, kqiraw, sourceraw, df, mapped_data, unmapped_data,
                   result_mapped>>

Next ==
    \/ ConvertNetworkId
    \/ ConvertTimeColumn
    \/ MapTowerData
    \/ SplitMapped
    \/ AggregateDaily
    \/ AggregateUnmapped

Spec == Init /\ [][Next]_vars

(***************************************************************************)
(* Use-case runs: one call of ProcessKQIDataUseCase.execute with the       *)
(* repositories of file_operations.py.  A call on the file system either   *)
(* succeeds or raises; what the data repository and the processor do is    *)
(* decided by the files.  calls lists the calls on the collaborators in    *)
(* the order they ended, each with whether it returned (ok) or raised.     *)
(***************************************************************************)
MaxFiles == 2
MaxHeader == 4
MaxMapRows == 2

RECURSIVE Concat(_)
Concat(files) == IF files = <<>> THEN <<>> ELSE Head(files) \o Concat(Tail(files))

\* A reader that takes a file without a line for a frame without rows.
load_csv_filesLenient(files) == [status |-> "ok", frame |-> Frame(Concat(files))]

\* pd.read_csv of every file and pd.concat: a file without a line raises
\* EmptyDataError, an empty list of files ValueError.
load_csv_files(files) ==
    IF files = <<>> THEN [status |-> "ValueError"]
    ELSE IF \E i \in 1..Len(files) : files[i] = <<>> THEN [status |-> "EmptyDataError"]
    ELSE [status |-> "ok", frame |-> Frame(Concat(files))]

\* The files of an input folder are built from: an empty file, a file of one
\* record, a file of two, a file whose record does not decode.
FilePool ==
    { <<>>,
      << Raw(Telkomsel10 \o Enb100 \o <<"0", "1">>, Day1Noon, CountersA) >>,
      << Raw(Telkomsel10 \o Enb100 \o <<"0", "2">>, Day1Late, CountersB),
         Raw(Foreign \o Enb200 \o <<"F", "f">>, Day2, CountersB) >>,
      << Raw(Telkomsel10 \o EnbBad \o <<"0", "1">>, Day1Noon, CountersA) >> }

\* Column names of a mapping file: the required ones, one of them with blanks
\* around it, one in another case, and one the code does not know.
NamePool ==
    { required_cols[1], required_cols[2], required_cols[3],
      <<" ">> \o required_cols[2] \o <<" ">>,
      <<"e", "n", "o", "d", "e", "b", "i", "d">>,
      <<"R", "e", "g", "i", "o", "n">> }

\* read_csv never gives two columns the same name.
HeaderPool ==
    { h \in SeqsUpTo(NamePool, 1, MaxHeader) :
        \A i, j \in 1..Len(h) : i # j => h[i] # h[j] }

MapRow(t, s, e) == [tower_id |-> t, swe_l5 |-> s, enodeb_id |-> e]

MapRowPool ==
    { MapRow("T1", "S1", <<"1", "0", "0">>),
      MapRow("T2", "S2", <<"1", "0", "0">>),
      MapRow("T1", Null, <<"2", "0", "0", ".", "0">>),
      MapRow("T3", "S3", <<"a", "b", "c">>),
      MapRow(Null, "S4", <<>>),
      MapRow("T5", "S5", <<"1", "x">>) }

ExecuteInputs ==
    { [gz |-> g, mapping |-> [header |-> required_cols, rows |-> <<MapRow("T1", "S1", <<"1", "0", "0">>)>>]] :
        g \in SeqsUpTo(FilePool, 0, MaxFiles) }
    \cup
    { [gz |-> << <<Raw(Telkomsel10 \o Enb100 \o <<"0", "1">>, Day1Noon, CountersA)>> >>,
       mapping |-> [header |-> h, rows |-> <<MapRow("T1", "S1", <<"1", "0", "0">>)>>]] :
        h \in HeaderPool }
    \cup
    { [gz |-> << <<Raw(Telkomsel10 \o Enb100 \o <<"0", "1">>, Day1Noon, CountersA)>> >>,
       mapping |-> [header |-> h, rows |-> m]] :
        h \in { required_cols, << <<"R", "e", "g", "i", "o", "n">>, required_cols[3], required_cols[2], required_cols[1] >> },
        m \in SeqsUpTo(MapRowPool, 0, MaxMapRows) }

InitExecute ==
    /\ IdleGui
    /\ IdleDecode
    /\ IdlePipe
    /\ env \in ExecuteInputs
    /\ step = "list_gz_files"
    /\ calls = <<>>
    /\ outcome = NotCalled

Returns(op, next) ==
    /\ calls' = Append(calls, [op |-> op, ok |-> TRUE])
    /\ step' = next
    /\ UNCHANGED outcome

\* An exception leaves the try block: control goes to the except clause.
Raises(op, error) ==
    /\ calls' = Append(calls, [op |-> op, ok |-> FALSE])
    /\ step' = "except"
    /\ outcome' = [status |-> "handling", error |-> error]

\* Step 1: list_gz_files, then the check of the list.
ListGzFiles ==
    /\ step = "list_gz_files"
    /\ \/ Raises("list_gz_files", [status |-> "IOError"])
       \/ env.gz = <<>> /\ Raises("raise", [status |-> "No .csv.gz files found!"])
       \/ env.gz # <<>> /\ Returns("list_gz_files", "create_directory")
    /\ UNCHANGED <<decodeVars, guiVars, pipeVars, env>>

\* Step 2: create_directory(extract_folder).
CreateDirectory ==
    /\ step = "create_directory"
    /\ \/ Raises("create_directory", [status |-> "IOError"])
       \/ Returns("create_directory", "extract_gz_files")
    /\ UNCHANGED <<decodeVars, guiVars, pipeVars, env>>

\* Step 2: extract_gz_files(gz_files, extract_folder).
ExtractGzFiles ==
    /\ step = "extract_gz_files"
    /\ \/ Raises("extract_gz_files", [status |-> "IOError"])
       \/ Returns("extract_gz_files", "load_csv_files")
    /\ UNCHANGED <<decodeVars, guiVars, pipeVars, env>>

\* Step 3: kqiraw = load_csv_files(csv_files, delimiter="|").
LoadCsvFiles ==
    /\ step = "load_csv_files"
    /\ LET r == load_csv_files(env.gz)
       IN  IF r.status = "ok"
           THEN Returns("load_csv_files", "load_mapping_file") /\ kqiraw' = r.frame
           ELSE Raises("load_csv_files", r) /\ UNCHANGED kqiraw
    /\ UNCHANGED <<decodeVars, guiVars, env, pc, given, sourceraw, df, mapped_data, unmapped_data,
                   result_mapped, result_unmapped, columns>>

\* Step 4: sourceraw = load_mapping_file(mapping_file); the Warning line of
\* load_mapping_file is its print.
LoadMappingFile ==
    /\ step = "load_mapping_file"
    /\ LET r == load_mapping_file(env.mapping)
       IN  IF r.status = "ok"
           THEN /\ calls' = calls
                            \o (IF r.warned
                                THEN <<[op |-> "print", ok |-> TRUE, dropped_count |-> r.dropped_count]>>
                                ELSE <<>>)
                            \o <<[op |-> "load_mapping_file", ok |-> TRUE]>>
                /\ step' = "process"
                /\ sourceraw' = r.table
                /\ UNCHANGED outcome
           ELSE Raises("load_mapping_file", r) /\ UNCHANGED sourceraw
    /\ UNCHANGED <<decodeVars, guiVars, env, pc, given, kqiraw, df, mapped_data, unmapped_data,
                   result_mapped, result_unmapped, columns>>

\* Steps 5-9: results = self.processor.process(kqiraw, sourceraw) is entered;
\* the steps of process are the actions of the pipeline.
Process ==
    /\ step = "process"
    /\ pc = "idle"
    /\ pc' = "start"
    /\ given' = [kqiraw |-> kqiraw, sourceraw |-> sourceraw]
    /\ step' = "processing"
    /\ UNCHANGED <<decodeVars, guiVars, env, calls, outcome, kqiraw, sourceraw, df, mapped_data,
                   unmapped_data, result_mapped, result_unmapped, columns>>

ProcessEnds ==
    /\ step = "processing"
    /\ \/ pc = "done" /\ Returns("process", "save_mapped")
       \/ pc = "raised" /\ Raises("process", ValueError)
    /\ UNCHANGED <<decodeVars, guiVars, pipeVars, env>>

\* if not result_mapped.empty: save_output(result_mapped, mapped_file)
SaveMapped ==
    /\ step = "save_mapped"
    /\ \/ result_mapped = {} /\ step' = "save_unmapped" /\ UNCHANGED <<calls, outcome>>
       \/ result_mapped # {} /\ Returns("save_output mapped", "save_unmapped")
       \/ result_mapped # {} /\ Raises("save_output mapped", [status |-> "IOError"])
    /\ UNCHANGED <<decodeVars, guiVars, pipeVars, env>>

\* A result that names both files whether they were written or not.
ProcessingResultBothPaths ==
    [mapped_data        |-> result_mapped,
     unmapped_data      |-> result_unmapped,
     mapped_file_path   |-> "KQI_timestamp.csv",
     unmapped_file_path |-> "kqi_unmapped_timestamp.csv"]

\* ProcessingResult(...) as the return statement builds it.
ProcessingResult ==
    [mapped_data        |-> result_mapped,
     unmapped_data      |-> result_unmapped,
     mapped_file_path   |-> IF result_mapped # {} THEN "KQI_timestamp.csv" ELSE "",
     unmapped_file_path |-> IF result_unmapped # {} THEN "kqi_unmapped_timestamp.csv" ELSE ""]

\* if not result_unmapped.empty: save_output(...); then the return statement,
\* whose value waits for the finally clause.
SaveUnmapped ==
    /\ step = "save_unmapped"
    /\ \/ /\ result_unmapped = {}
          /\ step' = "finally"
          /\ outcome' = [status |-> "returning", result |-> ProcessingResult]
          /\ UNCHANGED calls
       \/ /\ result_unmapped # {}
          /\ calls' = Append(calls, [op |-> "save_output unmapped", ok |-> TRUE])
          /\ step' = "finally"
          /\ outcome' = [status |-> "returning", result |-> ProcessingResult]
       \/ result_unmapped # {} /\ Raises("save_output unmapped", [status |-> "IOError"])
    /\ UNCHANGED <<decodeVars, guiVars, pipeVars, env>>

\* except Exception as e: self.log(error); raise
Except ==
    /\ step = "except"
    /\ calls' = Append(calls, [op |-> "log error", ok |-> TRUE])
    /\ step' = "finally"
    /\ UNCHANGED <<decodeVars, guiVars, pipeVars, env, outcome>>

\* A handler that hides the error: execute returns an empty result.
ReraiseAsEmpty(error) ==
    [status |-> "returned",
     result |-> [mapped_data |-> {}, unmapped_data |-> {},
                 mapped_file_path |-> "", unmapped_file_path |-> ""]]

\* raise: the exception goes to the caller once the finally clause is through.
Reraise(error) == [status |-> "raised", error |-> error]

\* A cleanup without its own handler: a failure of remove_directory leaves
\* the finally clause and replaces the outcome of the try block.
CleanupRaising ==
    /\ step = "finally"
    /\ \/ /\ calls' = Append(calls, [op |-> "remove_directory", ok |-> TRUE])
          /\ outcome' = IF outcome.status = "handling"
                        THEN Reraise(outcome.error)
                        ELSE [status |-> "returned", result |-> outcome.result]
       \/ /\ calls' = Append(calls, [op |-> "remove_directory", ok |-> FALSE])
          /\ outcome' = Reraise([status |-> "IOError"])
    /\ step' = "end"
    /\ UNCHANGED <<decodeVars, guiVars, pipeVars, env>>

\* finally: _cleanup_extracted_files, which logs a failure of remove_directory
\* as a warning; then execute ends as the try block decided.
Cleanup ==
    /\ step = "finally"
    /\ \/ calls' = Append(calls, [op |-> "remove_directory", ok |-> TRUE])
       \/ calls' = calls \o <<[op |-> "remove_directory", ok |-> FALSE],
                               [op |-> "log warning", ok |-> TRUE]>>
    /\ step' = "end"
    /\ outcome' = IF outcome.status = "handling"
                  THEN Reraise(outcome.error)
                  ELSE [status |-> "returned", result |-> outcome.result]
    /\ UNCHANGED <<decodeVars, guiVars, pipeVars, env>>

NextExecute ==
    \/ ListGzFiles
    \/ CreateDirectory
    \/ ExtractGzFiles
    \/ LoadCsvFiles
    \/ LoadMappingFile
    \/ Process
    \/ ConvertNetworkId
    \/ ConvertTimeColumn
    \/ MapTowerData
    \/ SplitMapped
    \/ AggregateDaily
    \/ AggregateUnmapped
    \/ ProcessEnds
    \/ SaveMapped
    \/ SaveUnmapped
    \/ Except
    \/ Cleanup

SpecExecute == InitExecute /\ [][NextExecute]_vars

(***************************************************************************)
(* Properties                                                              *)
(***************************************************************************)
HexChars ==
    {"0", "1", "2", "3", "4", "5", "6", "7", "8", "9",
     "a", "b", "c", "d", "e", "f", "A", "B", "C", "D", "E", "F"}

DecChars == {"0", "1", "2", "3", "4", "5", "6", "7", "8", "9"}

NibbleOf(c) ==
    CASE c = "0" -> 0 [] c = "1" -> 1 [] c = "2" -> 2 [] c = "3" -> 3
      [] c = "4" -> 4 [] c = "5" -> 5 [] c = "6" -> 6 [] c = "7" -> 7
      [] c = "8" -> 8 [] c = "9" -> 9
      [] c \in {"a", "A"} -> 10 [] c \in {"b", "B"} -> 11 [] c \in {"c", "C"} -> 12
      [] c \in {"d", "D"} -> 13 [] c \in {"e", "E"} -> 14 [] c \in {"f", "F"} -> 15

\* The base-16 value of a field of hex digits, digit by position.
RECURSIVE Base16Value(_)
Base16Value(f) ==
    IF f = <<>> THEN 0
    ELSE NibbleOf(f[Len(f)]) + 16 * Base16Value(SubSeq(f, 1, Len(f) - 1))

AllIn(f, S) == \A i \in 1..Len(f) : f[i] \in S

ValidId(id) ==
    /\ Len(id) = 12
    /\ AllIn(SubSeq(id, 1, 5), DecChars)
    /\ AllIn(SubSeq(id, 6, 12), HexChars)

Called == network_id # NotCalled

\* C5: for every valid 12-character identifier id, from_cgisai(id) returns
\* plmn = id[0:5], mcc = id[0:3], mnc = id[3:5], enodeb_id = the base-16 value
\* of id[5:10] and cell_id = the base-16 value of id[10:12], so plmn = mcc + mnc;
\* 510101234501 gives plmn 51010, operator Telkomsel, eNodeB 74565, cell 1.
C5_DecodeFields ==
    (Called /\ ValidId(cgisai)) =>
        /\ network_id.status = "ok"
        /\ network_id.plmn = SubSeq(cgisai, 1, 5)
        /\ network_id.mcc = SubSeq(cgisai, 1, 3)
        /\ network_id.mnc = SubSeq(cgisai, 4, 5)
        /\ network_id.enodeb_id = Base16Value(SubSeq(cgisai, 6, 10))
        /\ network_id.cell_id = Base16Value(SubSeq(cgisai, 11, 12))
        /\ network_id.plmn = network_id.mcc \o network_id.mnc
        /\ cgisai = ExampleId =>
             /\ network_id.plmn = <<"5", "1", "0", "1", "0">>
             /\ network_id.operator = "Telkomsel"
             /\ network_id.enodeb_id = 74565
             /\ network_id.cell_id = 1

C5_Witness ==
    /\ Called
    /\ ValidId(cgisai)
    /\ cgisai # ExampleId
    /\ network_id.status = "ok"
    /\ network_id.enodeb_id > 255
    /\ network_id.cell_id > 15

\* C10: when the eNodeB field (characters 5..9) or the cell field (characters
\* 10..11) of the padded identifier holds a character that is no hex digit,
\* from_cgisai raises; it returns no NetworkIdentifier for such an input.
C10_NonHexRaises ==
    LET padded == Zfill(cgisai, 12)
    IN  (Called /\ ~AllIn(SubSeq(padded, 6, 12), HexChars)) => network_id = ValueError

Counters == AggColsEnodeb

Merged == pc \in {"merged", "split", "daily", "done"}
Routed == pc \in {"split", "daily", "done"}
Returned == pc = "done"

OutputRows == result_mapped \cup result_unmapped

RECURSIVE Copies(_, _)
Copies(x, rows) ==
    IF rows = {} THEN 0
    ELSE LET r == CHOOSE y \in rows : TRUE
         IN  CopiesIn(x, r.recs) + Copies(x, rows \ {r})

RawTotal(col) == SeqSum(kqiraw, col)

\* An eNodeB id in the reference table, and the first row that has it.
InReference(e) == \E j \in 1..Len(sourceraw) : sourceraw[j].enodeb_id = e
FirstReference(e) ==
    sourceraw[CHOOSE j \in 1..Len(sourceraw) :
                /\ sourceraw[j].enodeb_id = e
                /\ \A h \in 1..(j - 1) : sourceraw[h].enodeb_id # e]

\* C1: in a run of process that returns, whatever the reference table, each
\* input record contributes its counters exactly once to exactly one output
\* row, resolved or unresolved: no record is left out or counted twice, so
\* the outputs' counters add up to the inputs'.
C1_EachRecordOnce ==
    Returned =>
        /\ \A i \in 1..Len(kqiraw) : Copies(kqiraw[i].rec, OutputRows) = 1
        /\ \A c \in Counters : SetSum(OutputRows, c) = RawTotal(c)

\* The raw records the code routes to the resolved branch with the given key.
RawWithTowerKey(k) ==
    { i \in 1..Len(kqiraw) :
        \E j \in 1..Len(mapped_data) :
            mapped_data[j].rec = kqiraw[i].rec /\ KeyTower(mapped_data[j]) = k }

RECURSIVE RawSum(_, _)
RawSum(idx, col) ==
    IF idx = {} THEN 0
    ELSE LET i == CHOOSE x \in idx : TRUE
         IN  kqiraw[i].cnt[col] + RawSum(idx \ {i}, col)

\* C2: every counter of a resolved output row (operator, date, towerId,
\* sweL5), after Stage 1 and Stage 2, is the sum of that counter over the raw
\* resolved records with that operator, date and tower.
C2_TowerSums ==
    Returned =>
        \A row \in result_mapped : \A c \in Counters :
            row.cnt[c] = RawSum(RawWithTowerKey(<<row.Opr, row.Date, row.SWE_L6, row.SWE_L5>>), c)

\* C3: a record whose eNodeB id is in the reference table (also several
\* times) is joined to one reference row, the first with that id in table
\* order, and its counters go once to that tower.
C3_FirstMatchOnly ==
    /\ Merged =>
         \A i \in 1..Len(kqiraw) :
            InReference(kqiraw[i].enodeb_id) =>
                LET joined == SelectSeq(df, LAMBDA r : r.rec = kqiraw[i].rec)
                    first  == FirstReference(kqiraw[i].enodeb_id)
                IN  /\ Len(joined) = 1
                    /\ joined[1].tower_id = first.tower_id
                    /\ joined[1].swe_l5 = first.swe_l5
    /\ Returned =>
         \A i \in 1..Len(kqiraw) :
            InReference(kqiraw[i].enodeb_id) =>
                LET first == FirstReference(kqiraw[i].enodeb_id)
                IN  /\ Copies(kqiraw[i].rec, result_mapped) = 1
                    /\ \E row \in result_mapped :
                          /\ CopiesIn(kqiraw[i].rec, row.recs) = 1
                          /\ row.SWE_L6 = first.tower_id
                          /\ row.SWE_L5 = first.swe_l5

\* C4: a record is in the resolved branch exactly when its decoded eNodeB id
\* is the id of a row of the reference table passed to process, and in the
\* unresolved branch exactly when it is the id of none; a resolved row
\* carries the towerId and sweL5 of a reference row with its id, and an
\* unresolved row keeps all the fields of its record and has no tower.
C4_Routing ==
    Routed =>
        /\ \A i \in 1..Len(kqiraw) :
              LET r == kqiraw[i]
              IN  /\ (\E j \in 1..Len(mapped_data) : mapped_data[j].rec = r.rec)
                       <=> InReference(r.enodeb_id)
                  /\ (\E j \in 1..Len(unmapped_data) : unmapped_data[j].rec = r.rec)
                       <=> ~InReference(r.enodeb_id)
                  /\ \A j \in 1..Len(unmapped_data) :
                        unmapped_data[j].rec = r.rec =>
                            \A f \in DOMAIN r : unmapped_data[j][f] = r[f]
        /\ \A j \in 1..Len(mapped_data) :
              \E h \in 1..Len(sourceraw) :
                  /\ sourceraw[h].enodeb_id = mapped_data[j].enodeb_id
                  /\ sourceraw[h].tower_id = mapped_data[j].tower_id
                  /\ sourceraw[h].swe_l5 = mapped_data[j].swe_l5
        /\ \A j \in 1..Len(unmapped_data) :
              unmapped_data[j].tower_id = Null /\ unmapped_data[j].swe_l5 = Null
        /\ \A j \in 1..Len(mapped_data) :
              \E i \in 1..Len(kqiraw) : kqiraw[i].rec = mapped_data[j].rec
        /\ \A j \in 1..Len(unmapped_data) :
              \E i \in 1..Len(kqiraw) : kqiraw[i].rec = unmapped_data[j].rec

C4_Witness ==
    /\ pc = "split"
    /\ mapped_data # <<>>
    /\ unmapped_data # <<>>
    /\ Len(sourceraw) > 1

Abs(x) == IF x < 0 THEN 0 - x ELSE x

\* v is the integer nearest to n / d (d > 0), the even one at a tie.
NearestEven(v, n, d) ==
    /\ 2 * Abs(v * d - n) <= d
    /\ 2 * Abs(v * d - n) = d => v % 2 = 0

\* v is an integer nearest to n / d (d > 0).
Nearest(v, n, d) == 2 * Abs(v * d - n) <= d

DelayIs(v, sum, count) ==
    /\ v \in Int
    /\ count > 0 => NearestEven(v, sum, count)
    /\ ~(count > 0) => v = 0

\* C6: in every output row E2E Delay is rtt_sum / rtt_good_count_sum when the
\* count is > 0 and 0 otherwise, SYN-SYN ACK Delay likewise from the step-1
\* sums, each an integer rounded to nearest, ties to even; 250 / 25 gives 10.
C6_Delays ==
    Returned =>
        \A row \in OutputRows :
            /\ DelayIs(row.E2E_Delay, row.cnt["tcp_rtt"], row.cnt["tcp_rtt_good_count"])
            /\ DelayIs(row.SYN_SYN_ACK_Delay, row.cnt["tcp_rtt_step1"],
                       row.cnt["tcp_rtt_step1_good_count"])
            /\ (row.cnt["tcp_rtt"] = 250 /\ row.cnt["tcp_rtt_good_count"] = 25)
                  => row.E2E_Delay = 10

IsHalf(sum, count) == count > 0 /\ (2 * sum) % count = 0 /\ sum % count # 0

C6_Witness ==
    /\ Returned
    /\ \E row \in result_mapped :
          /\ IsHalf(row.cnt["tcp_rtt"], row.cnt["tcp_rtt_good_count"])
          /\ row.cnt["tcp_rtt_step1"] > 0
          /\ row.cnt["tcp_rtt_step1_good_count"] = 0

\* v, in hundredths of a percent, is lost / total * 100 to 2 decimal places.
LossRateIs(v, lost, total) ==
    /\ total > 0 => Nearest(v, lost * 10000, total)
    /\ ~(total > 0) => v = 0

\* C7: in every output row, resolved or unresolved, each loss rate is its
\* losses / packets * 100 rounded to 2 decimal places when the packets are
\* > 0 and 0 otherwise: the uplink rates over the uplink packets, the
\* downlink rates over the downlink packets.
C7_LossRates ==
    Returned =>
        \A row \in OutputRows :
            /\ LossRateIs(row.Server_Side_Uplink_Loss_Rate,
                          row.cnt["server_probe_ul_lost_pkt"], row.cnt["tcp_ul_packages_withpl"])
            /\ LossRateIs(row.Server_Side_Downlink_Loss_Rate,
                          row.cnt["server_probe_dw_lost_pkt"], row.cnt["tcp_dl_packages_withpl"])
            /\ LossRateIs(row.Client_Side_Uplink_Loss_Rate,
                          row.cnt["user_probe_ul_lost_pkt"], row.cnt["tcp_ul_packages_withpl"])
            /\ LossRateIs(row.Client_Side_Downlink_Loss_Rate,
                          row.cnt["user_probe_dw_lost_pkt"], row.cnt["tcp_dl_packages_withpl"])

C7_Witness ==
    /\ Returned
    /\ \E row \in result_unmapped :
          /\ row.cnt["tcp_ul_packages_withpl"] = 3
          /\ row.cnt["tcp_dl_packages_withpl"] = 7
          /\ row.cnt["server_probe_ul_lost_pkt"] = 1
          /\ row.cnt["server_probe_dw_lost_pkt"] = 1
          /\ row.cnt["user_probe_ul_lost_pkt"] = 2
          /\ row.cnt["user_probe_dw_lost_pkt"] = 2
          /\ row.Server_Side_Uplink_Loss_Rate = 3333
          /\ row.Client_Side_Downlink_Loss_Rate = 2857

\* The exact quotient sum / count as a fraction, 0 when the count is not > 0.
Quotient(sum, count) == IF count > 0 THEN <<sum, count>> ELSE <<0, 1>>

\* C8: in every output row SYN ACK-ACK Delay is the unrounded E2E delay minus
\* the unrounded SYN-SYN ACK delay, rounded to an integer afterwards: it is
\* not clamped at 0 and is within 1 of the difference of the two output delays.
C8_SynAckAck ==
    Returned =>
        \A row \in OutputRows :
            LET e == Quotient(row.cnt["tcp_rtt"], row.cnt["tcp_rtt_good_count"])
                y == Quotient(row.cnt["tcp_rtt_step1"], row.cnt["tcp_rtt_step1_good_count"])
            IN  /\ Nearest(row.SYN_ACK_ACK_Delay, e[1] * y[2] - y[1] * e[2], e[2] * y[2])
                /\ Abs(row.SYN_ACK_ACK_Delay - (row.E2E_Delay - row.SYN_SYN_ACK_Delay)) <= 1

C8_Witness ==
    /\ Returned
    /\ \E row \in OutputRows :
          /\ row.SYN_ACK_ACK_Delay < 0
          /\ row.SYN_ACK_ACK_Delay # row.E2E_Delay - row.SYN_SYN_ACK_Delay

\* C9: the resolved output has exactly one row for each (operator, date,
\* towerId, sweL5) of a resolved record and the unresolved output exactly one
\* row for each (operator, date, eNodeB id, PLMN) of an unresolved record.
C9_OneRowPerKey ==
    Returned =>
        LET outMapped   == { <<row.Opr, row.Date, row.SWE_L6, row.SWE_L5>> : row \in result_mapped }
            outUnmapped == { <<row.Opr, row.Date, row.eNodeBID, row.PLMN>> : row \in result_unmapped }
        IN  /\ outMapped = { KeyTower(r) : r \in Rows(mapped_data) }
            /\ Cardinality(result_mapped) = Cardinality(outMapped)
            /\ outUnmapped = { KeyUnmapped(r) : r \in Rows(unmapped_data) }
            /\ Cardinality(result_unmapped) = Cardinality(outUnmapped)

(***************************************************************************)
(* Properties of execute and of load_mapping_file                          *)
(***************************************************************************)
Ended == step = "end"

\* The steps of execute, as the entries of calls name them.
StepOps ==
    {"list_gz_files", "raise", "create_directory", "extract_gz_files", "load_csv_files",
     "load_mapping_file", "process", "save_output mapped", "save_output unmapped"}

SaveOps == {"save_output mapped", "save_output unmapped"}

Failed(i) == calls[i].op \in StepOps /\ ~calls[i].ok

\* C11: when a step of execute raises (listing, the check of the list,
\* extraction, loading the records, loading the reference table, processing,
\* saving), no later step runs, the error is logged and the same error is
\* raised to the caller, and no ProcessingResult is returned; when the step
\* is one before saving, no output file has been written.
C11_ErrorPropagates ==
    \A i \in 1..Len(calls) :
        Failed(i) =>
            /\ \A j \in (i + 1)..Len(calls) :
                  calls[j].op \in {"log error", "remove_directory", "log warning"}
            /\ outcome.status \in {"handling", "raised"}
            /\ calls[i].op = "load_mapping_file" => outcome.error = load_mapping_file(env.mapping)
            /\ calls[i].op = "load_csv_files" => outcome.error.status = "EmptyDataError"
            /\ calls[i].op = "raise" => outcome.error.status = "No .csv.gz files found!"
            /\ calls[i].op \notin SaveOps =>
                  \A j \in 1..Len(calls) : calls[j].op \notin SaveOps
            /\ calls[i].op # "process" => pc \in {"idle", "done"}
            /\ Ended =>
                  /\ outcome.status = "raised"
                  /\ \E j \in (i + 1)..Len(calls) : calls[j].op = "log error"

C11_Witness ==
    /\ Ended
    /\ outcome.status = "raised"
    /\ \E i \in 1..Len(calls) : Failed(i) /\ calls[i].op = "process"
    /\ pc = "raised"

RECURSIVE TotalRows(_)
TotalRows(files) == IF files = <<>> THEN 0 ELSE Len(Head(files)) + TotalRows(Tail(files))

\* C13: a run whose input files hold no row at all (no file, or files without
\* a line) ends with an error raised to the caller (the missing files, the
\* empty data, or an earlier failure of the file system): process is never
\* called, so no empty result is returned, and no output file is saved.
C13_ZeroRowsFatal ==
    TotalRows(env.gz) = 0 =>
        /\ pc = "idle"
        /\ outcome.status # "returned"
        /\ \A j \in 1..Len(calls) : calls[j].op \notin SaveOps \cup {"process"}
        /\ Ended =>
              /\ outcome.status = "raised"
              /\ outcome.error.status \in {"No .csv.gz files found!", "EmptyDataError", "IOError"}
              /\ (\A j \in 1..Len(calls) : calls[j].op \in StepOps => calls[j].ok \/ calls[j].op \in {"raise", "load_csv_files"})
                    => outcome.error.status \in {"No .csv.gz files found!", "EmptyDataError"}

C13_Witness ==
    /\ Ended
    /\ env.gz # <<>>
    /\ TotalRows(env.gz) = 0
    /\ outcome.status = "raised"
    /\ outcome.error.status = "EmptyDataError"

\* name is the column name q with blanks before and after it.
IsName(name, q) ==
    /\ Len(name) >= Len(q)
    /\ \E a \in 0..(Len(name) - Len(q)) :
          name = Repeat(" ", a) \o q \o Repeat(" ", Len(name) - Len(q) - a)

RequiredNames ==
    << <<"T", "O", "W", "E", "R", " ", "I", "D">>,
       <<"S", "W", "E", "_", "L", "5">>,
       <<"e", "N", "o", "d", "e", "B", "I", "d">> >>

Header == env.mapping.header

Occurrences(q) == Cardinality({ i \in 1..Len(Header) : IsName(Header[i], q) })

\* The call of load_mapping_file has ended.
MappingLoaded == \E j \in 1..Len(calls) : calls[j].op = "load_mapping_file" /\ calls[j].ok
MappingFailed == \E j \in 1..Len(calls) : calls[j].op = "load_mapping_file" /\ ~calls[j].ok

IsNumberText(t) ==
    \E sign \in {<<>>, <<"+">>, <<"-">>} :
        \E w \in 0..Len(t), f \in 0..Len(t) :
            /\ w + f > 0
            /\ \/ Len(t) = Len(sign) + w /\ f = 0
               \/ Len(t) = Len(sign) + w + 1 + f /\ t[Len(sign) + w + 1] = "."
            /\ SubSeq(t, 1, Len(sign)) = sign
            /\ \A i \in (Len(sign) + 1)..(Len(sign) + w) : t[i] \in DecChars
            /\ \A i \in 1..Len(t) : i > Len(sign) + w + 1 => t[i] \in DecChars

MappingRows == env.mapping.rows

NumberRows == { i \in 1..Len(MappingRows) : IsNumberText(MappingRows[i].enodeb_id) }

StampOf(v) ==
    IF v.exp >= 0 THEN v.digits \o [i \in 1..v.exp |-> "0"]
    ELSE SubSeq(v.digits, 1, Len(v.digits) + v.exp)

IsWhole(v) ==
    v.exp >= 0 \/ \A i \in (Len(v.digits) + v.exp + 1)..Len(v.digits) : v.digits[i] = "0"

Field(n, a, b) == DecValue(SubSeq(n, a, b), 0)

\* n reads YYYYMMDDHHMM and names a day of the calendar and a time of day.
ValidStamp(n) ==
    /\ Len(n) = 12
    /\ n[1] # "0"
    /\ LET year  == Field(n, 1, 4)
           month == Field(n, 5, 6)
           day   == Field(n, 7, 8)
       IN  /\ month \in 1..12
           /\ day >= 1
           /\ day <= (CASE month \in {1, 3, 5, 7, 8, 10, 12} -> 31
                        [] month \in {4, 6, 9, 11} -> 30
                        [] OTHER -> IF year % 400 = 0 \/ (year % 4 = 0 /\ year % 100 # 0)
                                    THEN 29 ELSE 28)
    /\ Field(n, 9, 10) <= 23
    /\ Field(n, 11, 12) <= 59

InYears(n, from, to) == Field(n, 1, 4) >= from /\ Field(n, 1, 4) <= to

\* The run is past the time normalizer, or the time normalizer raised.
Normalized == pc \in {"time", "merged", "split", "daily", "done"}
NormalizerRaised ==
    /\ pc = "raised"
    /\ Len(kqiraw) > 0
    /\ "plmn" \in DOMAIN kqiraw[1]
    /\ "Date" \notin DOMAIN kqiraw[1]

GivenStamp(i) == given.kqiraw[i].timecolumn

\* Row i of the frame has the Date MM/DD/YYYY and the Time HH:MM of n.
DatedAs(i, n) ==
    /\ kqiraw[i].Date = SubSeq(n, 5, 6) \o <<"/">> \o SubSeq(n, 7, 8) \o <<"/">> \o SubSeq(n, 1, 4)
    /\ kqiraw[i].Time = SubSeq(n, 9, 10) \o <<":">> \o SubSeq(n, 11, 12)

\* Records i and j differ in the time of day only.
SameButTimeOfDay(i, j) ==
    /\ given.kqiraw[i].cgisai = given.kqiraw[j].cgisai
    /\ given.kqiraw[i].cnt = given.kqiraw[j].cnt
    /\ SubSeq(StampOf(GivenStamp(i)), 1, 8) = SubSeq(StampOf(GivenStamp(j)), 1, 8)

SameOutputRow(i, j) ==
    /\ \E row \in OutputRows : CopiesIn(i - 1, row.recs) > 0
    /\ \A row \in OutputRows : CopiesIn(i - 1, row.recs) = CopiesIn(j - 1, row.recs)

\* A value whose twelve-digit form is no date and time is fatal: the run
\* never gets past the normalizer.
InvalidIsFatal ==
    Normalized =>
        \A i \in 1..Len(given.kqiraw) :
            ~GivenStamp(i).nan /\ ValidStamp(StampOf(GivenStamp(i)))

\* C15 as stated: for every timestamp whose value is an integer YYYYMMDDHHMM
\* naming a valid date and time, whatever the year, the normalizer yields
\* Date = MM/DD/YYYY and Time = HH:MM (it does not raise when every value is
\* such a timestamp); records that differ in time of day only share an output
\* row; an invalid value is fatal.
C15_AnyYear ==
    /\ Normalized =>
         \A i \in 1..Len(given.kqiraw) :
            (~GivenStamp(i).nan /\ IsWhole(GivenStamp(i))
                /\ ValidStamp(StampOf(GivenStamp(i)))) => DatedAs(i, StampOf(GivenStamp(i)))
    /\ NormalizerRaised =>
         \E i \in 1..Len(given.kqiraw) :
            GivenStamp(i).nan \/ ~IsWhole(GivenStamp(i)) \/ ~ValidStamp(StampOf(GivenStamp(i)))
    /\ Returned =>
         \A i, j \in 1..Len(given.kqiraw) : SameButTimeOfDay(i, j) => SameOutputRow(i, j)
    /\ InvalidIsFatal

\* C15: for every timestamp whose value is an integer YYYYMMDDHHMM naming a
\* valid date and time with a year from 1678 to 2261, also when it arrives as
\* a float or with an exponent, the normalizer yields Date = MM/DD/YYYY and
\* Time = HH:MM of that value, and it does not raise when every value is such
\* a timestamp; Date is a grouping key and Time is not, so records that
\* differ in time of day only fall into the same output row; a value that is
\* no valid date and time is fatal.
C15_DateAndTime ==
    /\ Normalized =>
         \A i \in 1..Len(given.kqiraw) :
            (~GivenStamp(i).nan /\ IsWhole(GivenStamp(i))
                /\ InYears(StampOf(GivenStamp(i)), 1678, 2261)
                /\ ValidStamp(StampOf(GivenStamp(i)))) =>
                   DatedAs(i, StampOf(GivenStamp(i)))
    /\ NormalizerRaised =>
         \E i \in 1..Len(given.kqiraw) :
            \/ GivenStamp(i).nan
            \/ ~IsWhole(GivenStamp(i))
            \/ ~ValidStamp(StampOf(GivenStamp(i)))
            \/ ~InYears(StampOf(GivenStamp(i)), 1678, 2261)
    /\ Returned =>
         \A i, j \in 1..Len(given.kqiraw) : SameButTimeOfDay(i, j) => SameOutputRow(i, j)
    /\ InvalidIsFatal

\* Two records of one day, one of them arriving with an exponent, at
\* different times of day, in one output row.
C15_Witness ==
    /\ Returned
    /\ Len(given.kqiraw) = 2
    /\ SameButTimeOfDay(1, 2)
    /\ GivenStamp(1).exp > 0
    /\ kqiraw[1].Time # kqiraw[2].Time
    /\ kqiraw[1].Date = <<"0", "1", "/", "0", "1", "/", "2", "0", "2", "5">>
    /\ SameOutputRow(1, 2)

(***************************************************************************)
(* Properties of the operator lookup and of the decoded fields             *)
(***************************************************************************)
PaddedPlmn == SubSeq(Zfill(cgisai, 12), 1, 5)

Decoded == Called /\ network_id.status = "ok"

Listed(plmn) == \E e \in INDONESIA_OPERATORS : e[1] = plmn

\* C16: for every identifier that decodes, operator is the directory entry
\* of the 5-character PLMN when there is one (51010 is Telkomsel, 51011 is XL)
\* and "Unknown" otherwise; the lookup never raises, so the call returns
\* whenever the eNodeB and the cell field parse; the directory is the same
\* after any number of calls.
C16_OperatorLookup ==
    /\ directory = INDONESIA_OPERATORS
    /\ Decoded =>
         /\ \A e \in INDONESIA_OPERATORS : e[1] = PaddedPlmn => network_id.operator = e[2]
         /\ ~Listed(PaddedPlmn) => network_id.operator = "Unknown"
         /\ PaddedPlmn = <<"5", "1", "0", "1", "0">> => network_id.operator = "Telkomsel"
         /\ PaddedPlmn = <<"5", "1", "0", "1", "1">> => network_id.operator = "XL"
    /\ (Called /\ IntBase16(SubSeq(Zfill(cgisai, 12), 6, 10)).status = "ok"
               /\ IntBase16(SubSeq(Zfill(cgisai, 12), 11, 12)).status = "ok") => Decoded

\* An Indonesian PLMN that is not in the directory decodes to "Unknown".
C16_Witness ==
    /\ Decoded
    /\ Len(cgisai) = 12
    /\ SubSeq(cgisai, 1, 3) = <<"5", "1", "0">>
    /\ ~Listed(PaddedPlmn)
    /\ network_id.operator = "Unknown"
    /\ directory = INDONESIA_OPERATORS

\* C17: every NetworkIdentifier that from_cgisai returns has plmn = mcc + mnc,
\* enodeb_id >= 0 and cell_id >= 0.
C17_FieldInvariant ==
    Decoded =>
        /\ network_id.plmn = network_id.mcc \o network_id.mnc
        /\ network_id.enodeb_id >= 0
        /\ network_id.cell_id >= 0

\* A short identifier with zeros put before it up to twelve characters.
LeftPadded == [i \in 1..12 |-> IF i <= 12 - Len(cgisai) THEN "0" ELSE cgisai[i - (12 - Len(cgisai))]]

DecodedAsPadded ==
    /\ network_id.status = "ok"
    /\ network_id.plmn = SubSeq(LeftPadded, 1, 5)
    /\ network_id.mcc = SubSeq(LeftPadded, 1, 3)
    /\ network_id.mnc = SubSeq(LeftPadded, 4, 5)
    /\ network_id.enodeb_id = Base16Value(SubSeq(LeftPadded, 6, 10))
    /\ network_id.cell_id = Base16Value(SubSeq(LeftPadded, 11, 12))
    /\ Listed(SubSeq(LeftPadded, 1, 5)) \/ network_id.operator = "Unknown"

\* C18 as stated: from_cgisai succeeds on any string shorter than 12
\* characters, decoding it as the zero-left-padded 12-character identifier.
C18_AnyShortString == (Called /\ Len(cgisai) < 12) => DecodedAsPadded

\* C18: from_cgisai succeeds on any string of hex digits shorter than 12
\* characters: the string is left-padded with zeros to 12 characters and
\* decoded as that 12-character identifier, never failing.
C18_ShortHexString ==
    (Called /\ Len(cgisai) < 12 /\ AllIn(cgisai, HexChars)) => DecodedAsPadded

\* A short identifier that reaches into the PLMN: operator and eNodeB are
\* those of the padded text.
C18_Witness ==
    /\ Called
    /\ Len(cgisai) \in 8..11
    /\ AllIn(cgisai, HexChars)
    /\ network_id.status = "ok"
    /\ network_id.plmn # <<"0", "0", "0", "0", "0">>
    /\ network_id.enodeb_id > 255
    /\ network_id.cell_id > 0

(***************************************************************************)
(* Properties of the output columns and of the order of the records        *)
(***************************************************************************)
\* The 17 metric and count columns in the published order.
Published ==
    <<"E2E Delay(ms)",
      "TCP Connect Delay(ms)",
      "TCP Connect RTT Count(times)",
      "SYN-SYN ACK Delay(ms)",
      "TCP Connect Step1 Delay(ms)",
      "TCP Connect RTT Step1 Count(times)",
      "SYN ACK-ACK Delay(ms)",
      "Server Side Uplink TCP Packet Loss Rate(%)",
      "Server Side Uplink TCP Packet Losses(Packets)",
      "TCP Uplink Packets (with Payload)(Packets)",
      "Server Side Downlink TCP Packet Loss Rate(%)",
      "Server Side Downlink TCP Packet Losses",
      "TCP Downlink Packets (with Payload)(Packets)",
      "Client Side Uplink TCP Packet Loss Rate(%)",
      "Client Side Uplink TCP Packet Losses(Packets)",
      "Client Side Downlink TCP Packet Loss Rate(%)",
      "Client Side Downlink TCP Packet Losses(Packets)">>

\* C19: every non-empty resolved output has exactly the 22 columns Opr, Date,
\* NATIONAL, SWE_L5, SWE_L6 and the 17 metric and count columns in the
\* published order; every non-empty unresolved output has the same columns
\* with PLMN and eNodeBID in the places of SWE_L5 and SWE_L6; whatever the
\* input.
C19_ColumnOrder ==
    /\ (pc \in {"daily", "done"} /\ result_mapped # {}) =>
          /\ columns.mapped = <<"Opr", "Date", "NATIONAL", "SWE_L5", "SWE_L6">> \o Published
          /\ Len(columns.mapped) = 22
    /\ (Returned /\ result_unmapped # {}) =>
          /\ columns.unmapped = <<"Opr", "Date", "NATIONAL", "PLMN", "eNodeBID">> \o Published
          /\ Len(columns.unmapped) = 22
          /\ \A i \in (1..22) \ {4, 5} : columns.unmapped[i] = output_cols[i]

\* A run that returns both outputs non-empty.
C19_Witness ==
    /\ Returned
    /\ result_mapped # {}
    /\ result_unmapped # {}
    /\ Len(columns.mapped) = 22
    /\ columns.unmapped[4] = "PLMN"

\* The records, as _map_tower_data receives them (the columns of the two
\* conversions are added row by row), in the order p, each with its own index.
Reordered(p) == [i \in 1..Len(kqiraw) |-> kqiraw[p[i]]]

\* C20: for a fixed reference table, the output rows of a run, resolved and
\* unresolved, with their keys, labels, summed counters and KPIs, are the
\* output rows that the join, the split and the two aggregations give for
\* every permutation of the input records.
C20_OrderIndependent ==
    Returned =>
        \A p \in Permutations(1..Len(kqiraw)) :
            LET merged == _map_tower_data(Reordered(p), sourceraw)
            IN  /\ result_mapped \in
                     _aggregate_daily(SelectSeq(merged, LAMBDA r : r.tower_id # Null))
                /\ result_unmapped \in
                     _aggregate_unmapped(SelectSeq(merged, LAMBDA r : r.tower_id = Null))

\* Two records with different counters summed into one output row, against a
\* reference table that names their eNodeB twice.
C20_Witness ==
    /\ Returned
    /\ Len(given.kqiraw) >= 2
    /\ given.kqiraw[1].cnt # given.kqiraw[2].cnt
    /\ \E row \in result_mapped : CopiesIn(0, row.recs) > 0 /\ CopiesIn(1, row.recs) > 0
    /\ \E i, j \in 1..Len(given.sourceraw) :
          /\ i < j
          /\ given.sourceraw[i].enodeb_id = given.sourceraw[j].enodeb_id
          /\ given.sourceraw[i].tower_id # given.sourceraw[j].tower_id

(***************************************************************************)
(* Properties of the grouping of null keys and of the frames passed        *)
(***************************************************************************)
\* Row j of the resolved frame is in a Stage-1 group none of whose rows has
\* a site label: first() gives the Stage-1 row a null swe_l5.
NullSiteGroup(j) ==
    \A q \in 1..Len(mapped_data) :
        (/\ mapped_data[q].operator = mapped_data[j].operator
         /\ mapped_data[q].Date = mapped_data[j].Date
         /\ mapped_data[q].enodeb_id = mapped_data[j].enodeb_id) => mapped_data[q].swe_l5 = Null

\* The rows of a frame that were summed into an output row.
SummedInto(frame, row) == SelectSeq(frame, LAMBDA r : CopiesIn(r.rec, row.recs) > 0)

\* C21: a Stage-1 row whose site label, a grouping key of Stage 2, is null is
\* not dropped: its records are in an output row with a null SWE_L5, whose
\* counters are the sums over the records in it; and no row of the resolved
\* or of the unresolved frame is missing from the output.
C21_NullKeysKept ==
    Returned =>
        /\ \A j \in 1..Len(mapped_data) :
              NullSiteGroup(j) =>
                 \E row \in result_mapped :
                    /\ row.SWE_L5 = Null
                    /\ row.Opr = mapped_data[j].operator
                    /\ row.Date = mapped_data[j].Date
                    /\ CopiesIn(mapped_data[j].rec, row.recs) > 0
                    /\ \A c \in AggColsTower :
                          row.cnt[c] = SeqSum(SummedInto(mapped_data, row), c)
        /\ \A j \in 1..Len(mapped_data) :
              \E row \in result_mapped : CopiesIn(mapped_data[j].rec, row.recs) > 0
        /\ \A j \in 1..Len(unmapped_data) :
              \E row \in result_unmapped : CopiesIn(unmapped_data[j].rec, row.recs) > 0

\* Two records of different eNodeBs joined in the output row of a tower
\* without site label, beside rows that have one.
C21_Witness ==
    /\ Returned
    /\ \E row \in result_mapped :
          /\ row.SWE_L5 = Null
          /\ CopiesIn(0, row.recs) = 1
          /\ CopiesIn(1, row.recs) = 1
          /\ mapped_data[1].enodeb_id # mapped_data[2].enodeb_id
          /\ row.cnt["tcp_rtt"] = mapped_data[1].cnt["tcp_rtt"] + mapped_data[2].cnt["tcp_rtt"]

\* The timestamp of record i, now a text of twelve digits, is the number
\* that was passed.
SameTimestamp(i) ==
    /\ IsWhole(GivenStamp(i))
    /\ StripZeros(kqiraw[i].timecolumn) = StampOf(GivenStamp(i))

\* C22: process changes a raw record only by attaching decoded fields: after
\* it, the packed identifier, the packed timestamp and all counters of every
\* record hold the values passed, and the reference table is unchanged.
C22_RecordsKept ==
    Normalized =>
        /\ Len(kqiraw) = Len(given.kqiraw)
        /\ \A i \in 1..Len(kqiraw) :
              /\ kqiraw[i].cgisai = given.kqiraw[i].cgisai
              /\ kqiraw[i].cnt = given.kqiraw[i].cnt
              /\ SameTimestamp(i)
              /\ DOMAIN given.kqiraw[i] \subseteq DOMAIN kqiraw[i]
        /\ sourceraw = given.sourceraw

(***************************************************************************)
(* Properties of the cleanup and of the saving of the outputs              *)
(***************************************************************************)
Removals == { i \in 1..Len(calls) : calls[i].op = "remove_directory" }

\* The error a failing step of execute raises.
ErrorOf(op) ==
    CASE op = "raise" -> [status |-> "No .csv.gz files found!"]
      [] op = "load_csv_files" -> [status |-> "EmptyDataError"]
      [] op = "load_mapping_file" -> load_mapping_file(env.mapping)
      [] op = "process" -> [status |-> "ValueError"]
      [] OTHER -> [status |-> "IOError"]

\* C23: every call of execute attempts the removal of the extraction folder
\* exactly once, as its last action, whether the steps succeeded or one of
\* them failed (also the listing, before the folder was created); a failing
\* removal is logged as a warning, after which nothing else is done, and
\* the outcome is the one the steps decided: the result when none failed,
\* the error of the failing step otherwise.
C23_CleanupOnce ==
    /\ ~Ended => Removals = {}
    /\ Ended =>
          /\ Cardinality(Removals) = 1
          /\ \A k \in Removals :
                /\ calls[k].ok => k = Len(calls)
                /\ ~calls[k].ok => k = Len(calls) - 1 /\ calls[Len(calls)].op = "log warning"
                /\ \A j \in 1..(k - 1) : calls[j].op # "log warning"
          /\ (\A i \in 1..Len(calls) : ~Failed(i)) =>
                /\ outcome.status = "returned"
                /\ outcome.result = ProcessingResult
          /\ \A i \in 1..Len(calls) :
                Failed(i) => outcome = [status |-> "raised", error |-> ErrorOf(calls[i].op)]

\* The listing fails, the removal is attempted and fails too: the caller
\* gets the error of the listing.
C23_Witness ==
    /\ Ended
    /\ Len(calls) = 4
    /\ calls[1].op = "list_gz_files" /\ ~calls[1].ok
    /\ calls[3].op = "remove_directory" /\ ~calls[3].ok
    /\ calls[4].op = "log warning"
    /\ outcome = [status |-> "raised", error |-> [status |-> "IOError"]]

Saves(op) == { i \in 1..Len(calls) : calls[i].op = op /\ calls[i].ok }

\* C24: save_output is called only after process has returned, at most once
\* for each output; when execute returns, it was called for the resolved
\* result exactly when that is non-empty and for the unresolved result
\* exactly when that is non-empty, and a file path of the ProcessingResult is
\* non-empty exactly when its file was saved.
C24_SavesNonEmpty ==
    /\ \A i \in 1..Len(calls) :
          calls[i].op \in SaveOps =>
             /\ pc = "done"
             /\ \E j \in 1..(i - 1) : calls[j].op = "process" /\ calls[j].ok
    /\ Cardinality(Saves("save_output mapped")) <= 1
    /\ Cardinality(Saves("save_output unmapped")) <= 1
    /\ outcome.status = "returned" =>
          /\ Saves("save_output mapped") # {} <=> result_mapped # {}
          /\ Saves("save_output unmapped") # {} <=> result_unmapped # {}
          /\ outcome.result.mapped_file_path # "" <=> Saves("save_output mapped") # {}
          /\ outcome.result.unmapped_file_path # "" <=> Saves("save_output unmapped") # {}
          /\ outcome.result.mapped_data = result_mapped
          /\ outcome.result.unmapped_data = result_unmapped
          /\ \A i \in 1..Len(calls) : calls[i].op \in SaveOps => calls[i].ok

\* A run that returns with the resolved file saved and no unresolved file.
C24_Witness ==
    /\ outcome.status = "returned"
    /\ Saves("save_output mapped") # {}
    /\ Saves("save_output unmapped") = {}
    /\ outcome.result.mapped_file_path # ""
    /\ outcome.result.unmapped_file_path = ""

(***************************************************************************)
(* The window: ModernKQIGUI (presentation/gui.py)                          *)
(*                                                                         *)
(* The main thread runs one handler at a time; worker threads run          *)
(* run_processing concurrently and reach the widgets only through          *)
(* callbacks queued with root.after(0, ...), which the main loop runs in   *)
(* the order they were queued.  use_case.execute is seen from the window:  *)
(* it calls the log and progress callbacks, then returns or raises.        *)
(***************************************************************************)
MaxStarts == 3
MaxCallbacks == 2

\* execute counts its steps out of ten.
total_steps == 10

InitGui ==
    /\ IdleDecode
    /\ IdlePipe
    /\ IdleExec
    /\ inputs_valid \in BOOLEAN
    /\ is_processing = FALSE
    /\ process_btn = "normal"
    /\ log_text = <<>>
    /\ progress = [value |-> 0, label |-> "Ready to process..."]
    /\ main = "idle"
    /\ threads = <<>>
    /\ events = <<>>
    /\ dialog = "none"
    /\ monitors = 0
    /\ starts = 0

\* browse_input_folder, browse_mapping_file, browse_output_folder: the user
\* fills in or changes a field, which makes the three fields valid or not.
Browse ==
    /\ main = "idle"
    /\ inputs_valid' \in BOOLEAN \ {inputs_valid}
    /\ UNCHANGED <<decodeVars, pipeVars, execVars, is_processing, process_btn, log_text,
                   progress, main, threads, events, dialog, monitors, starts>>

\* start_processing without the test of is_processing.
StartProcessingUnguarded ==
    /\ main = "idle"
    /\ starts < MaxStarts
    /\ starts' = starts + 1
    /\ IF ~inputs_valid
       THEN /\ dialog' = "showerror"
            /\ UNCHANGED <<is_processing, process_btn, log_text, progress, main, monitors>>
       ELSE /\ log_text' = <<>>
            /\ progress' = [value |-> 0, label |-> "Starting processing..."]
            /\ is_processing' = TRUE
            /\ process_btn' = "disabled"
            /\ monitors' = monitors + 1
            /\ main' = "thread"
            /\ UNCHANGED dialog
    /\ UNCHANGED <<decodeVars, pipeVars, execVars, inputs_valid, threads, events>>

\* start_processing up to the creation of the thread (lines 273-290); the
\* message boxes return before the handler does.
StartProcessing ==
    /\ main = "idle"
    /\ starts < MaxStarts
    /\ starts' = starts + 1
    /\ IF ~inputs_valid
       THEN /\ dialog' = "showerror"
            /\ UNCHANGED <<is_processing, process_btn, log_text, progress, main, monitors>>
       ELSE IF is_processing
       THEN /\ dialog' = "showwarning"
            /\ UNCHANGED <<is_processing, process_btn, log_text, progress, main, monitors>>
       ELSE /\ log_text' = <<>>
            /\ progress' = [value |-> 0, label |-> "Starting processing..."]
            /\ is_processing' = TRUE
            /\ process_btn' = "disabled"
            /\ monitors' = monitors + 1
            /\ main' = "thread"
            /\ UNCHANGED dialog
    /\ UNCHANGED <<decodeVars, pipeVars, execVars, inputs_valid, threads, events>>

\* start_processing, its last two lines: the thread is created and started.
\* A thread is at the call of execute, then after it, then it has exited;
\* the handlers that ran for its run are recorded with it.
ThreadStart ==
    /\ main = "thread"
    /\ threads' = Append(threads, [at |-> "execute", ended |-> "no", callbacks |-> 0,
                                   handlers |-> <<>>])
    /\ main' = "idle"
    /\ UNCHANGED <<decodeVars, pipeVars, execVars, inputs_valid, is_processing, process_btn,
                   log_text, progress, events, dialog, monitors, starts>>

\* The callback of _start_progress_monitor: it schedules itself again while
\* a run is in progress and is dropped otherwise.
Monitor ==
    /\ main = "idle"
    /\ monitors > 0
    /\ monitors' = IF is_processing THEN monitors ELSE monitors - 1
    /\ UNCHANGED <<decodeVars, pipeVars, execVars, inputs_valid, is_processing, process_btn,
                   log_text, progress, main, threads, events, dialog, starts>>

\* log_message, called by execute on the worker thread; execute reports a
\* line, then a step, then a line, and so on, until it returns or raises.
log_message(k) ==
    /\ threads[k].at = "execute"
    /\ threads[k].callbacks < MaxCallbacks
    /\ threads[k].callbacks % 2 = 0
    /\ threads' = [threads EXCEPT ![k].callbacks = @ + 1]
    /\ events' = Append(events, [fn |-> "update_log", run |-> k, arg |-> threads[k].callbacks + 1])
    /\ UNCHANGED <<decodeVars, pipeVars, execVars, inputs_valid, is_processing, process_btn,
                   log_text, progress, main, dialog, monitors, starts>>

\* update_progress, called by execute on the worker thread with the number
\* of the step it has reached.
update_progress(k) ==
    /\ threads[k].at = "execute"
    /\ threads[k].callbacks < MaxCallbacks
    /\ threads[k].callbacks % 2 = 1
    /\ threads' = [threads EXCEPT ![k].callbacks = @ + 1]
    /\ events' = Append(events, [fn |-> "update_ui", run |-> k,
                                 arg |-> (threads[k].callbacks + 1) \div 2])
    /\ UNCHANGED <<decodeVars, pipeVars, execVars, inputs_valid, is_processing, process_btn,
                   log_text, progress, main, dialog, monitors, starts>>

\* run_processing, the call of use_case.execute: it returns or it raises.
Execute(k) ==
    /\ threads[k].at = "execute"
    /\ \E e \in {"returned", "raised"} :
         threads' = [threads EXCEPT ![k].at = "after", ![k].ended = e, ![k].callbacks = 0]
    /\ UNCHANGED <<decodeVars, pipeVars, execVars, inputs_valid, is_processing, process_btn,
                   log_text, progress, main, events, dialog, monitors, starts>>

\* run_processing without its except clause.
RunProcessingNoExcept(k) ==
    /\ threads[k].at = "after"
    /\ threads' = [threads EXCEPT ![k].at = "exited"]
    /\ events' = IF threads[k].ended = "returned"
                 THEN Append(events, [fn |-> "on_processing_complete", run |-> k, arg |-> 0])
                 ELSE events
    /\ UNCHANGED <<decodeVars, pipeVars, execVars, inputs_valid, is_processing, process_btn,
                   log_text, progress, main, dialog, monitors, starts>>

\* run_processing after execute: the handler that fits is queued and the
\* thread ends.
RunProcessing(k) ==
    /\ threads[k].at = "after"
    /\ threads' = [threads EXCEPT ![k].at = "exited"]
    /\ events' = IF threads[k].ended = "returned"
                 THEN Append(events, [fn |-> "on_processing_complete", run |-> k, arg |-> 0])
                 ELSE Append(events, [fn |-> "on_processing_error", run |-> k, arg |-> 0])
    /\ UNCHANGED <<decodeVars, pipeVars, execVars, inputs_valid, is_processing, process_btn,
                   log_text, progress, main, dialog, monitors, starts>>

\* The main loop runs the first queued callback, here update_log.
update_log ==
    /\ main = "idle"
    /\ events # <<>>
    /\ Head(events).fn = "update_log"
    /\ log_text' = Append(log_text, <<Head(events).run, Head(events).arg>>)
    /\ events' = Tail(events)
    /\ UNCHANGED <<decodeVars, pipeVars, execVars, inputs_valid, is_processing, process_btn,
                   progress, main, threads, dialog, monitors, starts>>

update_ui ==
    /\ main = "idle"
    /\ events # <<>>
    /\ Head(events).fn = "update_ui"
    /\ progress' = [value |-> (Head(events).arg * 100) \div total_steps, label |-> "Step"]
    /\ events' = Tail(events)
    /\ UNCHANGED <<decodeVars, pipeVars, execVars, inputs_valid, is_processing, process_btn,
                   log_text, main, threads, dialog, monitors, starts>>

on_processing_complete ==
    /\ main = "idle"
    /\ events # <<>>
    /\ Head(events).fn = "on_processing_complete"
    /\ is_processing' = FALSE
    /\ progress' = [value |-> 100, label |-> "Processing completed successfully!"]
    /\ process_btn' = "normal"
    /\ dialog' = "showinfo"
    /\ threads' = [threads EXCEPT ![Head(events).run].handlers =
                       Append(@, "on_processing_complete")]
    /\ events' = Tail(events)
    /\ UNCHANGED <<decodeVars, pipeVars, execVars, inputs_valid, log_text, main, monitors,
                   starts>>

\* on_processing_error queues its own log line before it shows the error.
on_processing_error ==
    /\ main = "idle"
    /\ events # <<>>
    /\ Head(events).fn = "on_processing_error"
    /\ is_processing' = FALSE
    /\ progress' = [value |-> 0, label |-> "Processing failed!"]
    /\ process_btn' = "normal"
    /\ dialog' = "showerror"
    /\ threads' = [threads EXCEPT ![Head(events).run].handlers =
                       Append(@, "on_processing_error")]
    /\ events' = Append(Tail(events), [fn |-> "update_log", run |-> Head(events).run, arg |-> 0])
    /\ UNCHANGED <<decodeVars, pipeVars, execVars, inputs_valid, log_text, main, monitors,
                   starts>>

NextGui ==
    \/ Browse
    \/ StartProcessing
    \/ ThreadStart
    \/ Monitor
    \/ \E k \in 1..Len(threads) : log_message(k)
    \/ \E k \in 1..Len(threads) : update_progress(k)
    \/ \E k \in 1..Len(threads) : Execute(k)
    \/ \E k \in 1..Len(threads) : RunProcessing(k)
    \/ update_log
    \/ update_ui
    \/ on_processing_complete
    \/ on_processing_error

SpecGui == InitGui /\ [][NextGui]_vars

\* The window with a main loop that keeps running its queued callbacks and
\* worker threads that keep being scheduled.
SpecGuiFair ==
    /\ SpecGui
    /\ WF_vars(update_log \/ update_ui \/ on_processing_complete \/ on_processing_error)
    /\ WF_vars(ThreadStart)
    /\ WF_vars(\E k \in 1..Len(threads) : Execute(k) \/ RunProcessing(k))

(***************************************************************************)
(* Properties of the window: one run at a time                             *)
(***************************************************************************)
\* The runs that are in progress: their thread was started and neither
\* on_processing_complete nor on_processing_error has run for them yet.
InProgress == {k \in 1..Len(threads) : threads[k].handlers = <<>>}

\* A step that is an invocation of start_processing.
Invoked == starts' = starts + 1

\* A step that starts a worker thread.
ThreadStarted == Len(threads') = Len(threads) + 1

\* C25: at most one run is in progress at any time; start_processing invoked
\* while is_processing is True starts no worker thread, starts none later for
\* that invocation (so it never calls execute), and leaves the log, the
\* progress bar with its label, the button and the flag as they were; and
\* is_processing is already True when a worker thread is started.
C25_OneRunAtATime ==
    [][ /\ Cardinality(InProgress') <= 1
        /\ (Invoked /\ is_processing) =>
              /\ threads' = threads
              /\ main' = "idle"
              /\ events' = events
              /\ log_text' = log_text
              /\ progress' = progress
              /\ process_btn' = process_btn
              /\ is_processing' = TRUE
        /\ ThreadStarted => (is_processing /\ is_processing') ]_vars

\* A run is in progress, its thread is still inside execute, and the last
\* invocation of start_processing was refused with the warning.
C25_Witness ==
    /\ is_processing
    /\ starts >= 2
    /\ dialog = "showwarning"
    /\ InProgress # {}
    /\ \E k \in InProgress : threads[k].at = "execute"

(***************************************************************************)
(* Properties of the window: the end of a run                              *)
(***************************************************************************)
\* execute has returned or raised in run k.
ExecuteEnded(k) == k <= Len(threads) /\ threads[k].ended # "no"

\* Run k has been handled and the window is ready for the next run.
HandledAndReady(k) ==
    /\ k <= Len(threads)
    /\ threads[k].handlers # <<>>
    /\ is_processing = FALSE
    /\ process_btn = "normal"

\* The handler that fits the way execute ended.
HandlerFor(e) == IF e = "returned" THEN "on_processing_complete" ELSE "on_processing_error"

\* A step in which on_processing_complete or on_processing_error runs.
HandlerRuns == \E k \in 1..Len(threads) : threads'[k].handlers # threads[k].handlers

\* C26: once execute has returned or raised in a run, the window eventually
\* has is_processing False and the start button enabled with that run
\* handled; at most one of on_processing_complete and on_processing_error
\* runs for a run, the one that fits, and only after execute has ended and
\* the thread has queued it; and a start_processing invoked with valid
\* fields while is_processing is False is accepted.
C26_RunIsHandled ==
    /\ [](\A k \in 1..Len(threads) :
            /\ Len(threads[k].handlers) <= 1
            /\ threads[k].handlers # <<>> =>
                  /\ threads[k].at = "exited"
                  /\ threads[k].handlers = <<HandlerFor(threads[k].ended)>>)
    /\ [][HandlerRuns => (is_processing' = FALSE /\ process_btn' = "normal")]_vars
    /\ [][(Invoked /\ ~is_processing /\ inputs_valid) =>
              (is_processing' /\ process_btn' = "disabled" /\ main' = "thread")]_vars
    /\ \A k \in 1..MaxStarts : ExecuteEnded(k) ~> HandledAndReady(k)

\* A run whose execute raised has been handled by on_processing_error, and
\* a later start_processing was accepted: its thread is inside execute.
C26_Witness ==
    /\ Len(threads) >= 2
    /\ threads[1].ended = "raised"
    /\ threads[1].handlers = <<"on_processing_error">>
    /\ threads[2].at = "execute"
    /\ is_processing

====
